---- MODULE Spec2Model ----
(***************************************************************************)
(* Model of climetlab's collection-indexing layer (core/index.py) and of   *)
(* the hypercube check of readers/grib/index/__init__.py.                  *)
(*                                                                         *)
(* Python values are records [t, v]: t is the runtime type ("int", "str",  *)
(* "none"), v the payload.  A str with v >= 0 is the decimal rendering of  *)
(* v ("500"); a str with v < 0 is an alphabetic word: -1 is "None", -2 is  *)
(* "t", -3 is "z", -4 is "b't'" (the str() of the bytes b"t").  A bytes    *)
(* value has t = "bytes" and the payload of the str it spells.             *)
(***************************************************************************)
EXTENDS Integers, Sequences, FiniteSets, TLC

\* ------------------------------------------------------------------ bounds
MaxLen == 3
MaxLenB == 1
MaxOps == 2
MaxCube == 4

\* ------------------------------------------------------------ python values
IntV(n) == [t |-> "int", v |-> n]
StrV(n) == [t |-> "str", v |-> n]
None == [t |-> "none", v |-> 0]
\* float("nan"), the one float among the values.
NaN == [t |-> "float", v |-> 0]

IsNumericStr(x) == x.t = "str" /\ x.v >= 0

RECURSIVE Digits(_)
Digits(n) == IF n < 10 THEN <<n>> ELSE Append(Digits(n \div 10), n % 10)

RECURSIVE SeqLess(_, _)
SeqLess(a, b) ==
    IF b = <<>> THEN FALSE
    ELSE IF a = <<>> THEN TRUE
    ELSE IF Head(a) # Head(b) THEN Head(a) < Head(b)
    ELSE SeqLess(Tail(a), Tail(b))

\* str < str: lexicographic; digits sort before letters.
StrLess(a, b) ==
    IF a >= 0 /\ b >= 0 THEN SeqLess(Digits(a), Digits(b))
    ELSE IF a >= 0 THEN TRUE
    ELSE IF b >= 0 THEN FALSE
    ELSE (0 - a) < (0 - b)

\* a == b between python values: nan equals nothing, itself included.
PyValEq(a, b) == a = b /\ a # NaN

\* a < b between python values: [ok |-> FALSE] is a raised TypeError; every
\* comparison of nan with a number is False.
PyLess(a, b) ==
    IF a.t = "int" /\ b.t = "int" THEN [ok |-> TRUE, b |-> a.v < b.v]
    ELSE IF {a.t, b.t} \subseteq {"int", "float"} THEN [ok |-> TRUE, b |-> FALSE]
    ELSE IF a.t = "str" /\ b.t = "str" THEN [ok |-> TRUE, b |-> StrLess(a.v, b.v)]
    ELSE [ok |-> FALSE, b |-> FALSE]

\* cast(y) with cast = type(x): int(y) or str(y).  int("t") raises ValueError,
\* int(None) raises TypeError; str(None) is the word "None".
BytesV(n) == [t |-> "bytes", v |-> n]

CastOk(t, y) ==
    IF t = "int" THEN y.t = "int" \/ (y.t \in {"str", "bytes"} /\ y.v >= 0)
    ELSE TRUE

Cast(t, y) ==
    IF t = "int" THEN IntV(y.v)
    ELSE IF y.t = "none" THEN StrV(0 - 1)
    ELSE IF y.t = "bytes" THEN StrV(0 - 4)
    ELSE StrV(y.v)

\* ------------------------------------------------------------------- dicts
\* A python dict is a sequence of [k, v] entries in insertion order.
RECURSIVE DictHas(_, _)
DictHas(d, k) ==
    IF d = <<>> THEN FALSE
    ELSE IF Head(d).k = k THEN TRUE ELSE DictHas(Tail(d), k)

\* Mutant: a key that is already there keeps its value.
DictSet_KeepOld(d, k, v) ==
    IF DictHas(d, k) THEN d ELSE Append(d, [k |-> k, v |-> v])

DictSet(d, k, v) ==
    IF DictHas(d, k)
    THEN [i \in 1..Len(d) |-> IF d[i].k = k THEN [k |-> k, v |-> v] ELSE d[i]]
    ELSE Append(d, [k |-> k, v |-> v])

RECURSIVE DictUpdate(_, _)
DictUpdate(d, e) ==
    IF e = <<>> THEN d
    ELSE DictUpdate(DictSet(d, Head(e).k, Head(e).v), Tail(e))

DictGet(d, k) == d[CHOOSE i \in 1..Len(d) : d[i].k = k].v

\* --------------------------------------------------------------- elements
\* An element exposes metadata(key); the keys of the model are "level" and
\* "param".
Keys == {"level", "param"}
metadata(e, k) == e[k]

\* ------------------------------------------------- Selection (the compiler)
\* A positional argument is None, a dict, or something else; a supplied value
\* is None, the wildcard ALL, a scalar (str, int), a list, tuple or set of
\* scalars, or a value of another type (bytes).  User callables are arbitrary
\* code and are not among the supplied values here.
ArgNone == [kind |-> "none", d |-> <<>>]
ArgDict(d) == [kind |-> "dict", d |-> d]
ArgOther == [kind |-> "other", d |-> <<>>]

ValNone == [kind |-> "none", vals |-> <<>>]
ValAll == [kind |-> "all", vals |-> <<>>]
ValScalar(x) == [kind |-> "scalar", vals |-> <<x>>]
ValList(xs) == [kind |-> "list", vals |-> xs]
ValTuple(xs) == [kind |-> "tuple", vals |-> xs]
ValSet(xs) == [kind |-> "set", vals |-> xs]
ValOther(x) == [kind |-> "other", vals |-> <<x>>]

SelValueSupported(v) ==
    v.kind \in {"none", "all", "list", "tuple", "set", "scalar"}

RECURSIVE MergeArgs(_, _)
MergeArgs(kw, args) ==
    IF args = <<>> THEN [ok |-> TRUE, kwargs |-> kw]
    ELSE IF Head(args).kind = "none" THEN MergeArgs(kw, Tail(args))
    ELSE IF Head(args).kind = "dict"
         THEN MergeArgs(DictUpdate(kw, Head(args).d), Tail(args))
    ELSE [ok |-> FALSE, kwargs |-> kw]

SelectionBaseInit(args, kwargs) ==
    LET m == MergeArgs(<<>>, args) IN
    IF ~m.ok THEN [ok |-> FALSE, kwargs |-> <<>>]
    ELSE IF \E i \in 1..Len(kwargs) : ~SelValueSupported(kwargs[i].v)
         THEN [ok |-> FALSE, kwargs |-> <<>>]
    ELSE [ok |-> TRUE, kwargs |-> DictUpdate(m.kwargs, kwargs)]

SeqRange(s) == {s[i] : i \in 1..Len(s)}

\* One compiled predicate: always-true, or an InList with its lazy-cast state.
SelAction(k, v) ==
    IF v.kind \in {"none", "all"}
    THEN [k |-> k, kind |-> "true", first |-> FALSE, lst |-> {}]
    ELSE [k |-> k, kind |-> "inlist", first |-> TRUE, lst |-> SeqRange(v.vals)]

SelectionInit(args, kwargs) ==
    LET b == SelectionBaseInit(args, kwargs) IN
    [ok |-> b.ok, kwargs |-> b.kwargs,
     actions |-> [i \in 1..Len(b.kwargs) |-> SelAction(b.kwargs[i].k, b.kwargs[i].v)]]

\* Mutant: a selection or ordering is never taken to be empty.
is_empty_Never(o) == FALSE

is_empty(o) == o.kwargs = <<>>

\* json.dumps of one supplied value: null, a number, a string, or an array
\* (a list and a tuple are both written as an array); a set and bytes are
\* not JSON serializable (TypeError).  The text is kept as its parse tree.
\* "ascending" and "descending" are strings.
JsonOk(v) == v.kind \in {"none", "scalar", "list", "tuple", "ascending", "descending"}

JsonScalar(x) == [j |-> IF x.t = "int" THEN "number" ELSE "string", v |-> x.v]

JsonValue(v) ==
    IF v.kind = "none" THEN [j |-> "null", items |-> <<>>]
    ELSE IF v.kind = "scalar" THEN [j |-> "scalar", items |-> <<JsonScalar(v.vals[1])>>]
    ELSE IF v.kind \in {"ascending", "descending"}
         THEN [j |-> "word", items |-> <<v.kind>>]
    ELSE [j |-> "array", items |-> [i \in 1..Len(v.vals) |-> JsonScalar(v.vals[i])]]

\* The keys of the model in the order sort_keys=True puts them.
SortedKeys == <<"level", "param">>

\* Mutant: the keys are written in insertion order.
RECURSIVE JsonDumps_Unsorted(_, _)
JsonDumps_Unsorted(d, i) ==
    IF i > Len(d) THEN <<>>
    ELSE <<[k |-> d[i].k, v |-> JsonValue(d[i].v)]>> \o JsonDumps_Unsorted(d, i + 1)

\* json.dumps(d, sort_keys=True), from the i-th sorted key on.
RECURSIVE JsonDumps(_, _)
JsonDumps(d, i) ==
    IF i > Len(SortedKeys) THEN <<>>
    ELSE (IF DictHas(d, SortedKeys[i])
          THEN <<[k |-> SortedKeys[i], v |-> JsonValue(DictGet(d, SortedKeys[i]))]>>
          ELSE <<>>) \o JsonDumps(d, i + 1)

\* h(): the sha256 of str(args), str(kwargs), the class name and the dump of
\* self.kwargs, here the four texts themselves (the digest is injective on
\* them); ok = FALSE when json.dumps raises.  h is called with no argument.
OrderOrSelection_h(o) ==
    IF \E i \in 1..Len(o.kwargs) : ~JsonOk(o.kwargs[i].v)
    THEN [ok |-> FALSE, digest |-> <<>>]
    ELSE [ok |-> TRUE,
          digest |-> <<"()", "{}", o.cls, JsonDumps(o.kwargs, 1)>>]

\* InList.__call__(x): [res, a] with res "T", "F" or "E" (the cast raised) and
\* a the predicate afterwards.
\* Mutant: the stored values are never cast.
InListCall_NoCast(a, x) ==
    IF a.kind = "true" THEN [res |-> "T", a |-> a]
    ELSE [res |-> IF x \in a.lst THEN "T" ELSE "F",
          a |-> [a EXCEPT !.first = a.first /\ x.t = "none"]]

\* Mutant: the stored values are cast at every call with a probe that is not
\* None.
InListCall_AlwaysCast(a, x) ==
    IF a.kind = "true" THEN [res |-> "T", a |-> a]
    ELSE IF x.t # "none"
    THEN IF \E y \in a.lst : ~CastOk(x.t, y)
         THEN [res |-> "E", a |-> a]
         ELSE LET lst == {Cast(x.t, y) : y \in a.lst} IN
              [res |-> IF x \in lst THEN "T" ELSE "F",
               a |-> [a EXCEPT !.first = FALSE, !.lst = lst]]
    ELSE [res |-> IF x \in a.lst THEN "T" ELSE "F", a |-> a]

InListCall(a, x) ==
    IF a.kind = "true" THEN [res |-> "T", a |-> a]
    ELSE IF a.first /\ x.t # "none"
    THEN IF \E y \in a.lst : ~CastOk(x.t, y)
         THEN [res |-> "E", a |-> a]
         ELSE LET lst == {Cast(x.t, y) : y \in a.lst} IN
              [res |-> IF x \in lst THEN "T" ELSE "F",
               a |-> [a EXCEPT !.first = FALSE, !.lst = lst]]
    ELSE [res |-> IF x \in a.lst THEN "T" ELSE "F", a |-> a]

\* match_element: all(...) over the predicates in key order, stopping at the
\* first that rejects (or raises); [res, actions].
RECURSIVE MatchFrom(_, _, _)
MatchFrom(actions, e, i) ==
    IF i > Len(actions) THEN [res |-> "T", actions |-> actions]
    ELSE LET r == InListCall(actions[i], metadata(e, actions[i].k))
             acts == [actions EXCEPT ![i] = r.a] IN
         IF r.res = "T" THEN MatchFrom(acts, e, i + 1)
         ELSE [res |-> r.res, actions |-> acts]

match_element(actions, e) == MatchFrom(actions, e, 1)

\* ----------------------------------------------------- Order (the compiler)
\* A positional argument may also be a str naming a key to sort ascending; a
\* supplied value may also be "ascending" or "descending".
ArgStr(k) == [kind |-> "str", d |-> <<[k |-> k, v |-> [kind |-> "ascending", vals |-> <<>>]]>>]
ValAsc == [kind |-> "ascending", vals |-> <<>>]
ValDesc == [kind |-> "descending", vals |-> <<>>]

OrderValueSupported(v) ==
    v.kind \in {"none", "list", "tuple", "set", "ascending", "descending"}

RECURSIVE MergeOrderArgs(_, _)
MergeOrderArgs(kw, args) ==
    IF args = <<>> THEN [ok |-> TRUE, kwargs |-> kw]
    ELSE IF Head(args).kind = "none" THEN MergeOrderArgs(kw, Tail(args))
    ELSE IF Head(args).kind \in {"dict", "str"}
         THEN MergeOrderArgs(DictUpdate(kw, Head(args).d), Tail(args))
    ELSE [ok |-> FALSE, kwargs |-> kw]

Cmp(n) == [ok |-> TRUE, n |-> n]
CmpRaise == [ok |-> FALSE, n |-> 0]

\* Mutant: values that are not equal and for which neither > nor < holds are
\* a tie.
ascending_TieOnIncomparable(a, b) ==
    IF PyValEq(a, b) THEN Cmp(0)
    ELSE LET gt == PyLess(b, a) IN
         IF ~gt.ok THEN CmpRaise
         ELSE IF gt.b THEN Cmp(1)
         ELSE LET lt == PyLess(a, b) IN
              IF ~lt.ok THEN CmpRaise
              ELSE IF lt.b THEN Cmp(0 - 1)
              ELSE Cmp(0)

ascending(a, b) ==
    IF PyValEq(a, b) THEN Cmp(0)
    ELSE LET gt == PyLess(b, a) IN
         IF ~gt.ok THEN CmpRaise
         ELSE IF gt.b THEN Cmp(1)
         ELSE LET lt == PyLess(a, b) IN
              IF ~lt.ok THEN CmpRaise
              ELSE IF lt.b THEN Cmp(0 - 1)
              ELSE CmpRaise

descending(a, b) ==
    IF PyValEq(a, b) THEN Cmp(0)
    ELSE LET gt == PyLess(b, a) IN
         IF ~gt.ok THEN CmpRaise
         ELSE IF gt.b THEN Cmp(0 - 1)
         ELSE LET lt == PyLess(a, b) IN
              IF ~lt.ok THEN CmpRaise
              ELSE IF lt.b THEN Cmp(1)
              ELSE CmpRaise

\* The rank table of an explicit list: order[str(key)] = i, then order[int(key)]
\* = i and order[float(key)] = i unless the conversion raises ValueError.  A
\* float equal to an int is the same dict key as that int.  int(None) raises
\* TypeError, which is not caught.
RECURSIVE RankTable(_, _, _)
RankTable(order, v, i) ==
    IF i > Len(v) THEN [ok |-> TRUE, order |-> order]
    ELSE LET key == v[i]
             o1 == DictSet(order, Cast("str", key), i - 1) IN
         IF key.t = "none" THEN [ok |-> FALSE, order |-> order]
         ELSE IF CastOk("int", key)
              THEN RankTable(DictSet(DictSet(o1, Cast("int", key), i - 1),
                                     Cast("int", key), i - 1), v, i + 1)
              ELSE RankTable(o1, v, i + 1)

\* Order.build_actions over the merged kwargs, in key order.
RECURSIVE build_actions(_, _)
build_actions(kwargs, acc) ==
    IF kwargs = <<>> THEN [ok |-> TRUE, actions |-> acc]
    ELSE LET k == Head(kwargs).k
             v == Head(kwargs).v IN
         IF v.kind \in {"ascending", "none"}
         THEN build_actions(Tail(kwargs),
                  Append(acc, [k |-> k, kind |-> "ascending", order |-> <<>>]))
         ELSE IF v.kind = "descending"
         THEN build_actions(Tail(kwargs),
                  Append(acc, [k |-> k, kind |-> "descending", order |-> <<>>]))
         ELSE IF v.kind \notin {"list", "tuple"} THEN [ok |-> FALSE, actions |-> acc]
         ELSE LET t == RankTable(<<>>, v.vals, 1) IN
              IF ~t.ok THEN [ok |-> FALSE, actions |-> acc]
              ELSE build_actions(Tail(kwargs),
                       Append(acc, [k |-> k, kind |-> "compare", order |-> t.order]))

OrderInit(args, kwargs) ==
    LET m == MergeOrderArgs(<<>>, args) IN
    IF ~m.ok THEN [ok |-> FALSE, kwargs |-> <<>>, actions |-> <<>>]
    ELSE IF \E i \in 1..Len(kwargs) : ~OrderValueSupported(kwargs[i].v)
         THEN [ok |-> FALSE, kwargs |-> <<>>, actions |-> <<>>]
    ELSE LET kw == DictUpdate(m.kwargs, kwargs)
             b == build_actions(kw, <<>>) IN
         [ok |-> b.ok, kwargs |-> kw, actions |-> b.actions]

\* Compare.__call__: ascending(self.order[a], self.order[b]); a missing key
\* raises KeyError.
CompareCall(order, a, b) ==
    IF ~DictHas(order, a) \/ ~DictHas(order, b) THEN CmpRaise
    ELSE LET ra == DictGet(order, a)
             rb == DictGet(order, b) IN
         IF ra = rb THEN Cmp(0) ELSE IF ra > rb THEN Cmp(1) ELSE Cmp(0 - 1)

OrderActionCall(act, a, b) ==
    IF act.kind = "ascending" THEN ascending(a, b)
    ELSE IF act.kind = "descending" THEN descending(a, b)
    ELSE CompareCall(act.order, a, b)

\* compare_elements: the first nonzero per-key result, 0 when every key ties.
\* Mutant: the last nonzero per-key result wins.
RECURSIVE CompareFrom_Last(_, _, _, _)
CompareFrom_Last(actions, a, b, i) ==
    IF i > Len(actions) THEN Cmp(0)
    ELSE LET n == OrderActionCall(actions[i], metadata(a, actions[i].k),
                                  metadata(b, actions[i].k))
             rest == CompareFrom_Last(actions, a, b, i + 1) IN
         IF ~n.ok \/ ~rest.ok THEN CmpRaise
         ELSE IF rest.n # 0 THEN rest
         ELSE n

RECURSIVE CompareFrom(_, _, _, _)
CompareFrom(actions, a, b, i) ==
    IF i > Len(actions) THEN Cmp(0)
    ELSE LET n == OrderActionCall(actions[i], metadata(a, actions[i].k),
                                  metadata(b, actions[i].k)) IN
         IF ~n.ok THEN CmpRaise
         ELSE IF n.n # 0 THEN n
         ELSE CompareFrom(actions, a, b, i + 1)

compare_elements(actions, a, b) == CompareFrom(actions, a, b, 1)

\* ------------------------------------------------------------------ sorted
\* sorted(indices, key=cmp_to_key(cmp)) on a list shorter than 64: CPython
\* finds the leading run (reversing it when strictly descending) and inserts
\* the rest by binary insertion; x < y is cmp(x, y) < 0.  lt is the matrix of
\* those comparisons, [ok, n] each; a raised comparison aborts the sort.
RECURSIVE RunEnd(_, _, _, _)
RunEnd(a, lt, k, desc) ==
    IF k = Len(a) THEN [ok |-> TRUE, k |-> k]
    ELSE LET c == lt[a[k + 1], a[k]] IN
         IF ~c.ok THEN [ok |-> FALSE, k |-> k]
         ELSE IF (c.n < 0) = desc THEN RunEnd(a, lt, k + 1, desc)
         ELSE [ok |-> TRUE, k |-> k]

\* Mutant: a descending leading run is left as it is.
Reverse_Identity(s) == s

Reverse(s) == [i \in 1..Len(s) |-> s[Len(s) + 1 - i]]

\* Mutant: the insertion point is left of equal elements (an unstable sort).
RECURSIVE BinarySearch_Left(_, _, _, _, _)
BinarySearch_Left(a, lt, pivot, l, r) ==
    IF l >= r THEN [ok |-> TRUE, l |-> l]
    ELSE LET p == l + ((r - l) \div 2)
             c == lt[pivot, a[p]] IN
         IF ~c.ok THEN [ok |-> FALSE, l |-> l]
         ELSE IF c.n <= 0 THEN BinarySearch_Left(a, lt, pivot, l, p)
         ELSE BinarySearch_Left(a, lt, pivot, p + 1, r)

RECURSIVE BinarySearch(_, _, _, _, _)
BinarySearch(a, lt, pivot, l, r) ==
    IF l >= r THEN [ok |-> TRUE, l |-> l]
    ELSE LET p == l + ((r - l) \div 2)
             c == lt[pivot, a[p]] IN
         IF ~c.ok THEN [ok |-> FALSE, l |-> l]
         ELSE IF c.n < 0 THEN BinarySearch(a, lt, pivot, l, p)
         ELSE BinarySearch(a, lt, pivot, p + 1, r)

\* Mutant: the pivot overwrites the element at its insertion point.
RECURSIVE BinarySort_Overwrite(_, _, _)
BinarySort_Overwrite(a, lt, start) ==
    IF start > Len(a) THEN [ok |-> TRUE, a |-> a]
    ELSE LET s == BinarySearch(a, lt, a[start], 1, start) IN
         IF ~s.ok THEN [ok |-> FALSE, a |-> a]
         ELSE BinarySort_Overwrite(SubSeq(a, 1, s.l - 1) \o <<a[start]>>
                                       \o SubSeq(a, s.l + 1, start - 1)
                                       \o SubSeq(a, start + 1, Len(a)),
                                   lt, start + 1)

RECURSIVE BinarySort(_, _, _)
BinarySort(a, lt, start) ==
    IF start > Len(a) THEN [ok |-> TRUE, a |-> a]
    ELSE LET s == BinarySearch(a, lt, a[start], 1, start) IN
         IF ~s.ok THEN [ok |-> FALSE, a |-> a]
         ELSE BinarySort(SubSeq(a, 1, s.l - 1) \o <<a[start]>>
                             \o SubSeq(a, s.l, start - 1)
                             \o SubSeq(a, start + 1, Len(a)),
                         lt, start + 1)

sorted(a, lt) ==
    IF Len(a) < 2 THEN [ok |-> TRUE, a |-> a]
    ELSE LET c == lt[a[2], a[1]] IN
         IF ~c.ok THEN [ok |-> FALSE, a |-> a]
         ELSE LET run == RunEnd(a, lt, 2, c.n < 0) IN
              IF ~run.ok THEN [ok |-> FALSE, a |-> a]
              ELSE LET b == IF c.n < 0
                            THEN Reverse(SubSeq(a, 1, run.k))
                                     \o SubSeq(a, run.k + 1, Len(a))
                            ELSE a IN
                   BinarySort(b, lt, run.k + 1)

\* ------------------------------------------------------------------- views
\* The heap h is the sequence of Index objects created so far; an object is
\* named by its position in h.  A concrete collection holds its elements, a
\* MaskIndex a backing index and a position list, a MultiIndex its children.
BaseIndex(elems) == [kind |-> "base", elems |-> elems, index |-> 0,
                     indices |-> <<>>, indexes |-> <<>>]

MaskIndexInit(index, indices) ==
    [kind |-> "mask", elems |-> <<>>, index |-> index,
     indices |-> indices, indexes |-> <<>>]

MultiIndexInit(indexes) ==
    [kind |-> "multi", elems |-> <<>>, index |-> 0,
     indices |-> <<>>, indexes |-> indexes]

RECURSIVE len(_, _)
RECURSIVE SumLen(_, _)
SumLen(h, ids) == IF ids = <<>> THEN 0 ELSE len(h, Head(ids)) + SumLen(h, Tail(ids))

len(h, v) ==
    IF h[v].kind = "base" THEN Len(h[v].elems)
    ELSE IF h[v].kind = "mask" THEN Len(h[v].indices)
    ELSE SumLen(h, h[v].indexes)

\* self[n] for an integer n: [ok, at, e] where at = <<collection, position>>
\* names the concrete element and e is the element; ok = FALSE is IndexError.
NoItem == [ok |-> FALSE, at |-> <<0, 0>>, e |-> [level |-> None, param |-> None]]

RECURSIVE getitem(_, _, _)
\* Mutant: an empty child swallows the position (> for >=).
RECURSIVE MultiGetitem_Strict(_, _, _, _)
MultiGetitem_Strict(h, v, n, k) ==
    IF k > Len(h[v].indexes) THEN NoItem
    ELSE IF n > len(h, h[v].indexes[k])
         THEN MultiGetitem_Strict(h, v, n - len(h, h[v].indexes[k]), k + 1)
    ELSE getitem(h, h[v].indexes[k], n)

RECURSIVE MultiGetitem(_, _, _, _)
MultiGetitem(h, v, n, k) ==
    IF k > Len(h[v].indexes) THEN NoItem
    ELSE IF n >= len(h, h[v].indexes[k])
         THEN MultiGetitem(h, v, n - len(h, h[v].indexes[k]), k + 1)
    ELSE getitem(h, h[v].indexes[k], n)

\* Mutant: the position is handed to the backing index untranslated.
MaskGetitem_Untranslated(h, v, n) ==
    LET m == Len(h[v].indices) IN
    IF n >= m \/ n < 0 - m THEN NoItem
    ELSE getitem(h, h[v].index, n)

MaskGetitem(h, v, n) ==
    LET m == Len(h[v].indices) IN
    IF n >= m \/ n < 0 - m THEN NoItem
    ELSE getitem(h, h[v].index, h[v].indices[IF n < 0 THEN n + m + 1 ELSE n + 1])

getitem(h, v, n) ==
    IF h[v].kind = "base"
    THEN IF n < 0 \/ n >= Len(h[v].elems) THEN NoItem
         ELSE [ok |-> TRUE, at |-> <<v, n>>, e |-> h[v].elems[n + 1]]
    ELSE IF h[v].kind = "mask" THEN MaskGetitem(h, v, n)
    ELSE MultiGetitem(h, v, n, 1)

\* The items self[0], ..., self[len(self) - 1], as enumerate(self) yields
\* them; a position that cannot be fetched fails the scan.
Items(h, v) == [i \in 1..len(h, v) |-> getitem(h, v, i - 1)]
Iterable(h, v) == \A i \in 1..len(h, v) : getitem(h, v, i - 1).ok
Contents(h, v) == [i \in 1..len(h, v) |-> getitem(h, v, i - 1).at]

\* Outcome of an operation: the heap afterwards and the object returned, or a
\* raised exception (ok = FALSE, heap as before).
Ret(h, id) == [ok |-> TRUE, h |-> h, id |-> id]
Raise(h) == [ok |-> FALSE, h |-> h, id |-> 0]

\* Mutant: the receiver takes the new positions too (an in-place update).
new_mask_index_InPlace(h, v, indices) ==
    Ret(Append([h EXCEPT ![v].indices = indices], MaskIndexInit(v, indices)),
        Len(h) + 1)

new_mask_index(h, v, indices) ==
    Ret(Append(h, MaskIndexInit(v, indices)), Len(h) + 1)

\* The scan of Index.sel: enumerate(self) with one Selection, whose InList
\* predicates keep their state from one element to the next.
RECURSIVE SelScan_Prepend(_, _, _, _)
SelScan_Prepend(items, actions, i, acc) ==
    IF i > Len(items) THEN [ok |-> TRUE, indices |-> acc]
    ELSE LET m == match_element(actions, items[i].e) IN
         IF m.res = "E" THEN [ok |-> FALSE, indices |-> acc]
         ELSE SelScan_Prepend(items, m.actions, i + 1,
                              IF m.res = "T" THEN <<i - 1>> \o acc ELSE acc)

RECURSIVE SelScan(_, _, _, _)
SelScan(items, actions, i, acc) ==
    IF i > Len(items) THEN [ok |-> TRUE, indices |-> acc]
    ELSE LET m == match_element(actions, items[i].e) IN
         IF m.res = "E" THEN [ok |-> FALSE, indices |-> acc]
         ELSE SelScan(items, m.actions, i + 1,
                      IF m.res = "T" THEN Append(acc, i - 1) ELSE acc)

IndexSel(h, v, args, kwargs) ==
    LET selection == SelectionInit(args, kwargs) IN
    IF ~selection.ok THEN Raise(h)
    ELSE IF is_empty(selection) THEN Ret(h, v)
    ELSE IF ~Iterable(h, v) THEN Raise(h)
    ELSE LET scan == SelScan(Items(h, v), selection.actions, 1, <<>>) IN
         IF ~scan.ok THEN Raise(h)
         ELSE new_mask_index(h, v, scan.indices)

\* MultiIndex.sel: every child's own sel, re-wrapped in a new MultiIndex.
RECURSIVE sel(_, _, _, _)
\* Mutant: children left empty by the selection are dropped.
RECURSIVE MultiSelChildren_DropEmpty(_, _, _, _, _)
MultiSelChildren_DropEmpty(h, ids, args, kwargs, acc) ==
    IF ids = <<>> THEN [ok |-> TRUE, h |-> h, ids |-> acc]
    ELSE LET r == sel(h, Head(ids), args, kwargs) IN
         IF ~r.ok THEN [ok |-> FALSE, h |-> h, ids |-> acc]
         ELSE MultiSelChildren_DropEmpty(r.h, Tail(ids), args, kwargs,
                  IF len(r.h, r.id) = 0 THEN acc ELSE Append(acc, r.id))

RECURSIVE MultiSelChildren(_, _, _, _, _)
MultiSelChildren(h, ids, args, kwargs, acc) ==
    IF ids = <<>> THEN [ok |-> TRUE, h |-> h, ids |-> acc]
    ELSE LET r == sel(h, Head(ids), args, kwargs) IN
         IF ~r.ok THEN [ok |-> FALSE, h |-> h, ids |-> acc]
         ELSE MultiSelChildren(r.h, Tail(ids), args, kwargs, Append(acc, r.id))

MultiIndexSel(h, v, args, kwargs) ==
    LET selection == SelectionInit(args, kwargs) IN
    IF ~selection.ok THEN Raise(h)
    ELSE IF is_empty(selection) THEN Ret(h, v)
    ELSE LET c == MultiSelChildren(h, h[v].indexes, args, kwargs, <<>>) IN
         IF ~c.ok THEN Raise(h)
         ELSE Ret(Append(c.h, MultiIndexInit(c.ids)), Len(c.h) + 1)

sel(h, v, args, kwargs) ==
    IF h[v].kind = "multi" THEN MultiIndexSel(h, v, args, kwargs)
    ELSE IndexSel(h, v, args, kwargs)

\* Index.order_by: a sort of range(len(self)) by compare_elements(self[i],
\* self[j]).
order_by(h, v, args, kwargs) ==
    LET order == OrderInit(args, kwargs) IN
    IF ~order.ok THEN Raise(h)
    ELSE IF is_empty(order) THEN Ret(h, v)
    ELSE LET n == len(h, v)
             cmp == [i \in 0..(n - 1), j \in 0..(n - 1) |->
                        LET a == getitem(h, v, i)
                            b == getitem(h, v, j) IN
                        IF ~a.ok \/ ~b.ok THEN CmpRaise
                        ELSE compare_elements(order.actions, a.e, b.e)]
             indices == sorted([i \in 1..n |-> i - 1], cmp) IN
         IF ~indices.ok THEN Raise(h)
         ELSE new_mask_index(h, v, indices.a)

\* A slice is [start, stop, step], each None or an integer.
Some(n) == [some |-> TRUE, n |-> n]
Nil == [some |-> FALSE, n |-> 0]
Slice(start, stop, step) == [start |-> start, stop |-> stop, step |-> step]

Max(a, b) == IF a > b THEN a ELSE b
Min(a, b) == IF a < b THEN a ELSE b

RECURSIVE RangeFrom(_, _, _)
RangeFrom(i, stop, step) ==
    IF (step > 0 /\ i >= stop) \/ (step < 0 /\ i <= stop) THEN <<>>
    ELSE <<i>> \o RangeFrom(i + step, stop, step)

\* range(n)[s]: python's slice.indices(n); a zero step raises ValueError.
RangeSlice(n, s) ==
    LET step == IF s.step.some THEN s.step.n ELSE 1
        lower == IF step < 0 THEN 0 - 1 ELSE 0
        upper == IF step < 0 THEN n - 1 ELSE n
        start == IF ~s.start.some THEN (IF step < 0 THEN upper ELSE lower)
                 ELSE IF s.start.n < 0 THEN Max(s.start.n + n, lower)
                 ELSE Min(s.start.n, upper)
        stop == IF ~s.stop.some THEN (IF step < 0 THEN lower ELSE upper)
                ELSE IF s.stop.n < 0 THEN Max(s.stop.n + n, lower)
                ELSE Min(s.stop.n, upper) IN
    IF step = 0 THEN [ok |-> FALSE, indices |-> <<>>]
    ELSE [ok |-> TRUE, indices |-> RangeFrom(start, stop, step)]

from_slice(h, v, s) ==
    LET r == RangeSlice(len(h, v), s) IN
    IF ~r.ok THEN Raise(h) ELSE new_mask_index(h, v, r.indices)

\* The entries of a flag list are python values: True and False (bool is an
\* int), or anything else with a truth value; `if x` is bool(x).
BoolV(b) == [t |-> "bool", v |-> IF b THEN 1 ELSE 0]

bool(x) == IF x.t \in {"bool", "int"} THEN x.v # 0 ELSE x.t # "none"

\* Mutant: positions counted from 1.
RECURSIVE Truthy_OneBased(_, _)
Truthy_OneBased(lst, i) ==
    IF i > Len(lst) THEN <<>>
    ELSE (IF bool(lst[i]) THEN <<i>> ELSE <<>>) \o Truthy_OneBased(lst, i + 1)

\* Mutant: the entries are taken as integer positions.
RECURSIVE Truthy_AsPositions(_, _)
Truthy_AsPositions(lst, i) ==
    IF i > Len(lst) THEN <<>>
    ELSE <<lst[i].v>> \o Truthy_AsPositions(lst, i + 1)

RECURSIVE Truthy(_, _)
Truthy(lst, i) ==
    IF i > Len(lst) THEN <<>>
    ELSE (IF bool(lst[i]) THEN <<i - 1>> ELSE <<>>) \o Truthy(lst, i + 1)

from_list(h, v, lst) == new_mask_index(h, v, Truthy(lst, 1))

from_dict(h, v, dic) == sel(h, v, <<ArgDict(dic)>>, <<>>)

\* Index.__getitem__(n): n is a slice, a list/tuple, a dict or an integer.
KeySlice(x) == [kind |-> "slice", s |-> x]
KeyList(x) == [kind |-> "list", lst |-> x]
KeyDict(x) == [kind |-> "dict", dic |-> x]
KeyInt(x) == [kind |-> "int", n |-> x]

index_getitem(h, v, n) ==
    IF n.kind = "slice" THEN from_slice(h, v, n.s)
    ELSE IF n.kind = "list" THEN from_list(h, v, n.lst)
    ELSE from_dict(h, v, n.dic)

\* ------------------------------------------------------------------ inputs
E(level, param) == [level |-> level, param |-> param]
W(k, v) == [k |-> k, v |-> v]
Call(args, kwargs) == [args |-> args, kwargs |-> kwargs]

Elements ==
    { E(IntV(500), StrV(0 - 2)), E(IntV(1000), StrV(0 - 3)),
      E(StrV(500), StrV(0 - 2)), E(None, StrV(0 - 3)) }

ElementsB == { E(IntV(500), StrV(0 - 3)) }

RECURSIVE SeqsUpTo(_, _)
SeqsUpTo(S, n) ==
    IF n = 0 THEN {<<>>}
    ELSE LET R == SeqsUpTo(S, n - 1) IN
         R \cup {Append(q, x) : q \in {r \in R : Len(r) = n - 1}, x \in S}

NoKeysCalls ==
    { Call(<<>>, <<>>), Call(<<ArgNone>>, <<>>), Call(<<ArgDict(<<>>)>>, <<>>) }

SelCalls ==
    NoKeysCalls \cup
    { Call(<<>>, <<W("level", ValScalar(IntV(500)))>>),
      Call(<<>>, <<W("level", ValList(<<StrV(500), IntV(1000)>>))>>),
      Call(<<>>, <<W("param", ValScalar(StrV(0 - 2))), W("level", ValAll)>>),
      Call(<<ArgDict(<<W("level", ValScalar(IntV(1000)))>>)>>,
           <<W("level", ValNone), W("param", ValList(<<StrV(0 - 3)>>))>>),
      Call(<<>>, <<W("level", ValScalar(StrV(0 - 2)))>>) }

OrderCalls ==
    NoKeysCalls \cup
    { Call(<<ArgStr("param")>>, <<>>),
      Call(<<>>, <<W("level", ValDesc)>>),
      Call(<<ArgStr("param")>>, <<W("level", ValAsc)>>),
      Call(<<>>, <<W("param", ValList(<<StrV(0 - 3), StrV(0 - 2)>>))>>),
      Call(<<>>, <<W("level", ValList(<<IntV(1000), IntV(500)>>))>>) }

Slices ==
    { Slice(Some(0), Some(2), Nil), Slice(Some(1), Nil, Nil),
      Slice(Nil, Nil, Some(0 - 1)), Slice(Nil, Nil, Some(2)),
      Slice(Some(0 - 1), Nil, Nil), Slice(Nil, Nil, Some(0)) }

Dicts == { <<>>, <<W("level", ValScalar(IntV(500)))>> }

\* Flag lists as long as the collection (all set, none set, every other one
\* set from the first or from the second), one that is one flag too long, and
\* one of integers (n - 1, ..., 1, 0).
Flags(n) ==
    { [i \in 1..n |-> BoolV(TRUE)], [i \in 1..n |-> BoolV(FALSE)],
      [i \in 1..n |-> BoolV(i % 2 = 1)], [i \in 1..n |-> BoolV(i % 2 = 0)],
      [i \in 1..(n + 1) |-> BoolV(TRUE)], [i \in 1..n |-> IntV(n - i)] }

\* Integer positions: the first and the last, the two just outside, and the
\* two negative ones that name the last and the one before the first.
Positions(n) == {0 - (n + 1), 0 - 1, 0, n - 1, n}

IndexKeys(n) ==
    {KeySlice(x) : x \in Slices} \cup {KeyList(x) : x \in Flags(n)}
        \cup {KeyDict(x) : x \in Dicts}

\* ------------------------------------------------------------------- state
VARIABLES views, made, snap, ops, last, cube, parent, hyper, objs,
          avail, fsys, procs, inputs

vars == <<views, made, snap, ops, last, cube, parent, hyper, objs,
          avail, fsys, procs, inputs>>

\* The availability cache of a FieldSet, the files and processes of a
\* download, and the Input objects of a configuration are each exercised on
\* their own; elsewhere they stay idle.
others == <<avail, fsys, procs, inputs>>

NoFieldSet == [some |-> FALSE]
NoFiles == [names |-> <<>>, inodes |-> <<>>]

AvailIdle == avail = NoFieldSet
DownloadIdle == fsys = NoFiles /\ procs = <<>>
ConfigIdle == inputs = <<>>

\* The hypercube check is exercised on its own, on a collection cube of
\* metadata dicts; here it stays idle.
\* objs holds the Selection and Order objects built and called on their own;
\* the collection operations build theirs inside each call.
CubeIdle ==
    /\ objs = <<>>
    /\ cube = <<>>
    /\ parent = [some |-> FALSE, c |-> <<>>, hyper |-> "unknown"]
    /\ hyper = "unknown"
    /\ AvailIdle /\ DownloadIdle /\ ConfigIdle

Init ==
    /\ \E A \in SeqsUpTo(Elements, MaxLen), B \in SeqsUpTo(ElementsB, MaxLenB) :
          /\ views = <<BaseIndex(A), BaseIndex(B)>>
          /\ snap = <<[i \in 1..Len(A) |-> <<1, i - 1>>],
                      [i \in 1..Len(B) |-> <<2, i - 1>>]>>
    /\ made = <<[op |-> "base", exact |-> TRUE], [op |-> "base", exact |-> TRUE]>>
    /\ ops = 0
    /\ last = [op |-> "init", recv |-> 0, before |-> 0, ok |-> TRUE, id |-> 0]
    /\ CubeIdle

\* What every operation leaves behind: the heap, how each new object was
\* made, its contents when made, and the call with its outcome.
Step(call, r, exact) ==
    /\ ops < MaxOps
    /\ ops' = ops + 1
    /\ views' = r.h
    /\ made' = made \o [i \in 1..(Len(r.h) - Len(views)) |->
                           [op |-> call.op, exact |-> exact]]
    /\ snap' = snap \o [i \in 1..(Len(r.h) - Len(views)) |->
                           Contents(r.h, Len(views) + i)]
    /\ last' = call @@ [before |-> Len(views), ok |-> r.ok, id |-> r.id]
    /\ UNCHANGED <<cube, parent, hyper, objs, others>>

Sel(v, c) ==
    Step([op |-> "sel", recv |-> v, args |-> c.args, kwargs |-> c.kwargs],
         sel(views, v, c.args, c.kwargs), TRUE)

OrderBy(v, c) ==
    Step([op |-> "order_by", recv |-> v, args |-> c.args, kwargs |-> c.kwargs],
         order_by(views, v, c.args, c.kwargs), TRUE)

Getitem(v, n) ==
    Step([op |-> "getitem", recv |-> v, n |-> n],
         index_getitem(views, v, n),
         n.kind = "list" => Len(n.lst) = len(views, v))

\* self[n] for an integer n: an element or a raised IndexError; nothing is
\* created.
GetitemInt(v, n) ==
    /\ ops < MaxOps
    /\ ops' = ops + 1
    /\ last' = [op |-> "item", recv |-> v, n |-> KeyInt(n), before |-> Len(views),
                ok |-> getitem(views, v, n).ok, id |-> 0,
                at |-> getitem(views, v, n).at]
    /\ UNCHANGED <<views, made, snap, cube, parent, hyper, objs, others>>

NewMulti(ids) ==
    Step([op |-> "multi", recv |-> 0, indexes |-> ids],
         Ret(Append(views, MultiIndexInit(ids)), Len(views) + 1), TRUE)

Next ==
    \/ \E v \in 1..Len(views), c \in SelCalls : Sel(v, c)
    \/ \E v \in 1..Len(views), c \in OrderCalls : OrderBy(v, c)
    \/ \E v \in 1..Len(views) : \E n \in IndexKeys(len(views, v)) : Getitem(v, n)
    \/ \E v \in 1..Len(views) : \E n \in Positions(len(views, v)) : GetitemInt(v, n)
    \/ \E ids \in SeqsUpTo(1..Len(views), 2) : NewMulti(ids)

Spec == Init /\ [][Next]_vars

\* ------------------------------------------------ FieldSet.is_full_hypercube
\* get_metadata(i) is a dict over CubeKeys whose values may be None.
CubeKeys == {"level", "param", "_offset"}

ignore_keys ==
    {"_param_id", "mean", "std", "min", "max", "valid", "param_level",
     "_path", "_length", "_offset"}

\* custom_availability: one dict per element, without the ignored keys and
\* without the entries whose value is None.
\* Mutant: the ignored keys are kept.
custom_availability_KeepAll(c, ignore) ==
    [i \in 1..Len(c) |->
        [k \in {q \in DOMAIN c[i] : c[i][q] # None} |-> c[i][k]]]

custom_availability(c, ignore) ==
    [i \in 1..Len(c) |->
        [k \in {q \in DOMAIN c[i] : q \notin ignore /\ c[i][q] # None} |-> c[i][k]]]

\* Tree.unique_values(): for every key of the tree, the set of its values.
unique_values(dicts) ==
    LET keys == UNION {DOMAIN dicts[i] : i \in 1..Len(dicts)} IN
    [k \in keys |-> {dicts[i][k] : i \in {j \in 1..Len(dicts) : k \in DOMAIN dicts[j]}}]

RECURSIVE Prod(_, _)
Prod(f, K) ==
    IF K = {} THEN 1
    ELSE LET k == CHOOSE q \in K : TRUE IN Cardinality(f[k]) * Prod(f, K \ {k})

\* Mutant: the expected size is at most the product (<= for ==).
is_full_hypercube_AtMost(c) ==
    LET u == unique_values(custom_availability(c, ignore_keys))
        non_empty_coords == {k \in DOMAIN u : Cardinality(u[k]) > 1}
        expected_size == Prod(u, non_empty_coords) IN
    Len(c) <= expected_size

is_full_hypercube(c) ==
    LET u == unique_values(custom_availability(c, ignore_keys))
        non_empty_coords == {k \in DOMAIN u : Cardinality(u[k]) > 1}
        expected_size == Prod(u, non_empty_coords) IN
    Len(c) = expected_size

\* Removing the element at position i - 1, as a flag list with that flag
\* cleared does.
RemoveAt(c, i) ==
    LET idx == Truthy([j \in 1..Len(c) |-> BoolV(j # i)], 1) IN
    [j \in 1..Len(idx) |-> c[idx[j] + 1]]

CubeElements ==
    { [level |-> l, param |-> q, _offset |-> o] :
        l \in {IntV(500), IntV(1000), None},
        q \in {StrV(0 - 2), StrV(0 - 3)},
        o \in {IntV(0), IntV(1)} }

NoParent == [some |-> FALSE, c |-> <<>>, hyper |-> "unknown"]

CubeInit ==
    /\ cube \in SeqsUpTo(CubeElements, MaxCube)
    /\ parent = NoParent
    /\ hyper = "unknown"
    /\ views = <<>> /\ made = <<>> /\ snap = <<>> /\ ops = 0 /\ objs = <<>>
    /\ last = [op |-> "init", recv |-> 0, before |-> 0, ok |-> TRUE, id |-> 0]
    /\ AvailIdle /\ DownloadIdle /\ ConfigIdle

CubeCheck ==
    /\ hyper = "unknown"
    /\ hyper' = IF is_full_hypercube(cube) THEN "yes" ELSE "no"
    /\ UNCHANGED <<cube, parent, views, made, snap, ops, last, objs, others>>

CubeRemove(i) ==
    /\ hyper # "unknown"
    /\ ~parent.some
    /\ cube' = RemoveAt(cube, i)
    /\ parent' = [some |-> TRUE, c |-> cube, hyper |-> hyper]
    /\ hyper' = "unknown"
    /\ UNCHANGED <<views, made, snap, ops, last, objs, others>>

CubeNext ==
    \/ CubeCheck
    \/ \E i \in 1..Len(cube) : CubeRemove(i)

SpecCube == CubeInit /\ [][CubeNext]_vars

\* ------------------------------------ Selection and Order objects on their own
\* A caller builds compilers and calls match_element, compare_elements and h
\* on them.
MaxObjs == 2
MaxCalls == 2

CompileElements == Elements

CompileSelCalls ==
    { Call(<<>>, <<W("level", ValList(<<IntV(500)>>))>>),
      Call(<<>>, <<W("level", ValTuple(<<IntV(500)>>))>>),
      Call(<<>>, <<W("level", ValSet(<<IntV(500)>>))>>),
      Call(<<>>, <<W("level", ValScalar(StrV(0 - 2)))>>),
      Call(<<>>, <<W("level", ValList(<<IntV(500)>>)), W("param", ValScalar(StrV(0 - 2)))>>),
      Call(<<ArgDict(<<W("param", ValScalar(StrV(0 - 3))),
                       W("level", ValTuple(<<IntV(500)>>))>>),
             ArgNone,
             ArgDict(<<W("level", ValList(<<IntV(500)>>))>>)>>,
           <<W("param", ValScalar(StrV(0 - 2)))>>),
      Call(<<ArgDict(<<W("level", ValList(<<IntV(500)>>))>>), ArgOther>>, <<>>),
      Call(<<>>, <<W("level", ValOther(BytesV(0 - 2)))>>),
      Call(<<ArgDict(<<W("level", ValOther(BytesV(0 - 2)))>>)>>, <<>>) }

CompileOrderCalls ==
    { Call(<<ArgStr("param")>>, <<W("level", ValDesc)>>),
      Call(<<ArgDict(<<W("level", ValDesc)>>), ArgStr("param")>>, <<W("level", ValAsc)>>),
      Call(<<>>, <<W("level", ValAsc), W("param", ValTuple(<<StrV(0 - 3), StrV(0 - 2)>>))>>),
      Call(<<>>, <<W("level", ValList(<<IntV(1000)>>))>>),
      Call(<<>>, <<W("level", ValSet(<<IntV(1000)>>))>>),
      Call(<<ArgDict(<<W("level", ValScalar(IntV(500)))>>)>>, <<>>) }

CompileInit ==
    /\ objs = <<>>
    /\ ops = 0
    /\ last = [op |-> "init", recv |-> 0, before |-> 0, ok |-> TRUE, id |-> 0]
    /\ views = <<>> /\ made = <<>> /\ snap = <<>>
    /\ cube = <<>> /\ parent = NoParent /\ hyper = "unknown"
    /\ AvailIdle /\ DownloadIdle /\ ConfigIdle

\* Selection(*args, **kwargs): a failed construction leaves no object.
NewSelection(c) ==
    /\ Len(objs) < MaxObjs
    /\ LET o == SelectionInit(c.args, c.kwargs) IN
       /\ objs' = IF o.ok
                  THEN Append(objs, [cls |-> "Selection", args |-> c.args,
                                     kw |-> c.kwargs, kwargs |-> o.kwargs,
                                     actions |-> o.actions])
                  ELSE objs
       /\ last' = [op |-> "Selection", args |-> c.args, kwargs |-> c.kwargs,
                   ok |-> o.ok, obj |-> IF o.ok THEN Len(objs) + 1 ELSE 0]
    /\ UNCHANGED <<ops, views, made, snap, cube, parent, hyper, others>>

\* Order(*args, **kwargs).
NewOrder(c) ==
    /\ Len(objs) < MaxObjs
    /\ LET o == OrderInit(c.args, c.kwargs) IN
       /\ objs' = IF o.ok
                  THEN Append(objs, [cls |-> "Order", args |-> c.args,
                                     kw |-> c.kwargs, kwargs |-> o.kwargs,
                                     actions |-> o.actions])
                  ELSE objs
       /\ last' = [op |-> "Order", args |-> c.args, kwargs |-> c.kwargs,
                   ok |-> o.ok, obj |-> IF o.ok THEN Len(objs) + 1 ELSE 0]
    /\ UNCHANGED <<ops, views, made, snap, cube, parent, hyper, others>>

\* selection.match_element(e): the InList predicates keep what the call
\* leaves in them.
MatchElement(i, e) ==
    /\ ops < MaxCalls
    /\ objs[i].cls = "Selection"
    /\ LET r == match_element(objs[i].actions, e) IN
       /\ objs' = [objs EXCEPT ![i].actions = r.actions]
       /\ last' = [op |-> "match", obj |-> i, e |-> e, res |-> r.res,
                   was |-> objs[i].actions]
    /\ ops' = ops + 1
    /\ UNCHANGED <<views, made, snap, cube, parent, hyper, others>>

\* order.compare_elements(a, b).
CompareElements(i, a, b) ==
    /\ ops < MaxCalls
    /\ objs[i].cls = "Order"
    /\ last' = [op |-> "compare", obj |-> i, a |-> a, b |-> b,
                res |-> compare_elements(objs[i].actions, a, b)]
    /\ ops' = ops + 1
    /\ UNCHANGED <<objs, views, made, snap, cube, parent, hyper, others>>

\* o.h().
Fingerprint(i) ==
    /\ ops < MaxCalls
    /\ last' = [op |-> "h", obj |-> i, ok |-> OrderOrSelection_h(objs[i]).ok,
                digest |-> OrderOrSelection_h(objs[i]).digest]
    /\ ops' = ops + 1
    /\ UNCHANGED <<objs, views, made, snap, cube, parent, hyper, others>>

CompileNext ==
    \/ \E c \in CompileSelCalls : NewSelection(c)
    \/ \E c \in CompileOrderCalls : NewOrder(c)
    \/ \E i \in 1..Len(objs), e \in CompileElements : MatchElement(i, e)
    \/ \E i \in 1..Len(objs), a, b \in CompileElements : CompareElements(i, a, b)
    \/ \E i \in 1..Len(objs) : Fingerprint(i)

SpecCompile == CompileInit /\ [][CompileNext]_vars

\* ------------------------------------------------------------ Index.mutate
\* Index.__init__ captures the constructor's arguments; order_by=None is
\* stored as the empty dict.
IndexInit(args, ob, kwargs) ==
    [init_args |-> args, init_kwargs |-> kwargs,
     init_order_by |-> IF ob.kind = "none" THEN ArgDict(<<>>) ELSE ob]

\* mutate(): sel with the captured arguments, order_by with the same
\* arguments, then order_by with the captured ordering (never None after
\* __init__).  An exception in any step leaves mutate without a result.
mutate(hp, v, init) ==
    LET r1 == sel(hp, v, init.init_args, init.init_kwargs) IN
    IF ~r1.ok THEN Raise(hp)
    ELSE LET r2 == order_by(r1.h, r1.id, init.init_args, init.init_kwargs) IN
         IF ~r2.ok THEN Raise(hp)
         ELSE LET r3 == order_by(r2.h, r2.id, <<init.init_order_by>>, <<>>) IN
              IF ~r3.ok THEN Raise(hp) ELSE r3

\* The constructor arguments: no key, keys with list values and None, a key
\* with a scalar value, the same inside a positional dict.
MutateCalls ==
    { Call(<<>>, <<>>),
      Call(<<>>, <<W("level", ValList(<<IntV(1000), IntV(500)>>))>>),
      Call(<<>>, <<W("param", ValList(<<StrV(0 - 3), StrV(0 - 2)>>)), W("level", ValNone)>>),
      Call(<<ArgDict(<<W("param", ValList(<<StrV(0 - 3)>>))>>)>>, <<>>),
      Call(<<>>, <<W("level", ValScalar(IntV(500)))>>),
      Call(<<ArgDict(<<W("param", ValScalar(StrV(0 - 2)))>>)>>, <<>>) }

MutateOrders ==
    { ArgNone, ArgDict(<<W("level", ValDesc)>>), ArgDict(<<W("param", ValAsc)>>),
      ArgStr("param") }

MutateInit ==
    /\ \E A \in SeqsUpTo(Elements \cup ElementsB, MaxLen),
          c \in MutateCalls, ob \in MutateOrders :
          /\ views = <<BaseIndex(A)>>
          /\ snap = <<[i \in 1..Len(A) |-> <<1, i - 1>>]>>
          /\ made = <<[op |-> "base", exact |-> TRUE]
                          @@ IndexInit(c.args, ob, c.kwargs)>>
    /\ ops = 0
    /\ last = [op |-> "init", recv |-> 0, before |-> 0, ok |-> TRUE, id |-> 0]
    /\ CubeIdle

\* The collection is mutated once, right after its construction.
Mutate(v) ==
    /\ ops = 0
    /\ made[v].op = "base"
    /\ Step([op |-> "mutate", recv |-> v, args |-> made[v].init_args,
             kwargs |-> made[v].init_kwargs, order_by |-> made[v].init_order_by],
            mutate(views, v, made[v]), TRUE)

MutateNext == \E v \in 1..Len(views) : Mutate(v)

SpecMutate == MutateInit /\ [][MutateNext]_vars

\* ------------------------------------------------------------------ claims
\* The heap as it was when the last call was made.
Before == SubSeq(views, 1, last.before)

\* The verdicts of one Selection over the elements of a collection, in scan
\* order ("T" where match_element is true).
RECURSIVE MatchTrace(_, _, _)
MatchTrace(items, actions, i) ==
    IF i > Len(items) THEN <<>>
    ELSE LET m == match_element(actions, items[i].e) IN
         <<m.res>> \o MatchTrace(items, m.actions, i + 1)

SelReturnedView ==
    /\ last.op = "sel"
    /\ last.ok
    /\ Before[last.recv].kind # "multi"
    /\ ~is_empty(SelectionInit(last.args, last.kwargs))

\* C1: Index.sel with a non-empty selection returns a masked view over the
\* receiver whose positions are exactly those where match_element is true,
\* each once, in increasing order, so that matching elements keep their
\* relative order.
C1_SelKeepsMatchesInOrder ==
    SelReturnedView =>
        LET r == views[last.id]
            tr == MatchTrace(Items(Before, last.recv),
                             SelectionInit(last.args, last.kwargs).actions, 1) IN
        /\ r.kind = "mask" /\ r.index = last.recv
        /\ \A i, j \in 1..Len(r.indices) : i < j => r.indices[i] < r.indices[j]
        /\ SeqRange(r.indices) = {p \in 0..(Len(tr) - 1) : tr[p + 1] = "T"}
        /\ \A i \in 1..Len(r.indices) :
              getitem(views, last.id, i - 1) = getitem(views, last.recv, r.indices[i])

C1_Witness ==
    /\ SelReturnedView
    /\ views[last.id].indices = <<0, 2>>

OrderReturnedView ==
    /\ last.op = "order_by"
    /\ last.ok
    /\ ~is_empty(OrderInit(last.args, last.kwargs))

\* C2: order_by is stable: two elements that compare equal under the ordering
\* (compare_elements gives 0) appear in the result in the order they had in
\* the receiver.
C2_SortStability ==
    OrderReturnedView =>
        LET r == views[last.id]
            acts == OrderInit(last.args, last.kwargs).actions IN
        \A i, j \in 1..Len(r.indices) :
            (/\ i < j
             /\ compare_elements(acts,
                    getitem(views, last.recv, r.indices[i]).e,
                    getitem(views, last.recv, r.indices[j]).e) = Cmp(0))
            => r.indices[i] < r.indices[j]

\* Two tied elements are separated, in the receiver, by one that sorts before
\* them, and the sort has moved that one to the front.
C2_Witness ==
    /\ OrderReturnedView
    /\ views[last.id].indices = <<1, 0, 2>>
    /\ compare_elements(OrderInit(last.args, last.kwargs).actions,
           getitem(views, last.recv, 0).e, getitem(views, last.recv, 2).e) = Cmp(0)

\* Prefix(h, ids, j): the total length of the first j children.
Prefix(h, ids, j) == SumLen(h, SubSeq(ids, 1, j))

\* C3: a MultiIndex is the concatenation of its children: its length is the
\* sum of their lengths, and every position n below it falls in exactly one
\* child j (the one whose prefix sums bracket n, whatever children are
\* empty), where it is that child's item n - Prefix(j - 1).
C3_MultiIndexConcatenation ==
    \A v \in 1..Len(views) :
        views[v].kind = "multi" =>
            LET ids == views[v].indexes IN
            /\ len(views, v) = Prefix(views, ids, Len(ids))
            /\ \A n \in 0..(len(views, v) - 1) :
                  /\ Cardinality({j \in 1..Len(ids) :
                         /\ Prefix(views, ids, j - 1) <= n
                         /\ n < Prefix(views, ids, j)}) = 1
                  /\ \A j \in 1..Len(ids) :
                         (Prefix(views, ids, j - 1) <= n /\ n < Prefix(views, ids, j))
                         => getitem(views, v, n)
                                = getitem(views, ids[j], n - Prefix(views, ids, j - 1))

\* MultiIndex([A, B]) with A empty and B not, and with both non-empty.
C3_Witness ==
    \E v \in 1..Len(views) :
        /\ views[v].kind = "multi"
        /\ Len(views[v].indexes) = 2
        /\ len(views, views[v].indexes[1]) = 0
        /\ len(views, views[v].indexes[2]) >= 2

MultiSelReturned ==
    /\ last.op = "sel"
    /\ last.ok
    /\ Before[last.recv].kind = "multi"
    /\ ~is_empty(SelectionInit(last.args, last.kwargs))

\* The heap and MultiIndex obtained by selecting on each of the two children
\* separately and concatenating the results: MultiIndex([A.sel(P), B.sel(P)]).
SelThenConcat(h, ids, args, kwargs) ==
    LET a == sel(h, ids[1], args, kwargs)
        b == sel(a.h, ids[2], args, kwargs) IN
    Append(b.h, MultiIndexInit(<<a.id, b.id>>))

\* C4: selection distributes over concatenation: MultiIndex([A, B]).sel(P)
\* holds the same elements in the same order as MultiIndex([A.sel(P),
\* B.sel(P)]), and is itself a MultiIndex with one child per original child.
C4_SelDistributesOverConcat ==
    MultiSelReturned =>
        LET ids == Before[last.recv].indexes
            r == views[last.id] IN
        /\ r.kind = "multi"
        /\ Len(r.indexes) = Len(ids)
        /\ Len(ids) = 2 =>
              LET m == SelThenConcat(Before, ids, last.args, last.kwargs) IN
              /\ Contents(views, last.id) = Contents(m, Len(m))
              /\ \A j \in 1..2 :
                     Contents(views, r.indexes[j]) = Contents(m, m[Len(m)].indexes[j])

\* Two different children, both with matching elements, the first also with
\* some that do not match.
C4_Witness ==
    /\ MultiSelReturned
    /\ Len(Before[last.recv].indexes) = 2
    /\ LET ids == Before[last.recv].indexes
           r == views[last.id] IN
       /\ ids[1] # ids[2]
       /\ len(views, r.indexes[1]) >= 1
       /\ len(views, r.indexes[2]) >= 1
       /\ len(views, r.indexes[1]) < len(views, ids[1])

\* C5: no operation mutates an existing collection or view: every object
\* ever returned still has the length and the elements it had when it was
\* made, whatever sel, order_by and indexing calls came after.
C5_ViewsNeverMutated ==
    \A v \in 1..Len(views) : Contents(views, v) = snap[v]

\* A view of a view has been made, by an operation that reorders.
C5_Witness ==
    /\ ops = 2
    /\ last.ok
    /\ last.id = 4
    /\ views[4].kind = "mask" /\ views[4].index = 3
    /\ views[3].kind = "mask" /\ Len(views[3].indices) >= 2
    /\ views[4].indices # views[3].indices

\* C6: the positions of every MaskIndex lie in [0, len(backing)) and its
\* length is the number of positions, for masks made by sel, order_by, a
\* slice, a dict, or a flag list as long as the collection.
C6_MaskPositionsInRange ==
    \A v \in 1..Len(views) :
        (views[v].kind = "mask" /\ made[v].exact) =>
            /\ \A i \in 1..Len(views[v].indices) :
                  /\ views[v].indices[i] >= 0
                  /\ views[v].indices[i] < len(views, views[v].index)
            /\ len(views, v) = Len(views[v].indices)

\* A mask made from a full-length flag list whose last flag is set, and a
\* mask made by a reversing slice.
C6_Witness ==
    /\ Len(views) = 4
    /\ made[3].op = "getitem" /\ made[4].op = "getitem"
    /\ last.n.kind = "list"
    /\ Len(last.n.lst) = len(views, last.recv)
    /\ last.recv = 3
    /\ Len(views[4].indices) >= 1
    /\ views[4].indices[Len(views[4].indices)] = len(views, 3) - 1
    /\ views[3].indices = <<2, 1, 0>>

\* C7: sel never lengthens and order_by never changes the length.
C7_LengthConservation ==
    /\ (last.op = "sel" /\ last.ok) => len(views, last.id) <= len(views, last.recv)
    /\ (last.op = "order_by" /\ last.ok) => len(views, last.id) = len(views, last.recv)

C7_Witness ==
    /\ OrderReturnedView
    /\ len(views, last.id) = MaxLen
    /\ views[last.recv].kind = "multi"

\* C8: sel and order_by called with no keys (no argument, None, or an empty
\* dict) return the receiver itself and create nothing.
C8_NoKeysIsIdentity ==
    (/\ last.op \in {"sel", "order_by"}
     /\ [args |-> last.args, kwargs |-> last.kwargs] \in NoKeysCalls)
    => /\ last.ok
       /\ last.id = last.recv
       /\ views = Before

\* Both have been called with no keys, one of them on a MultiIndex.
C8_Witness ==
    /\ last.op = "order_by"
    /\ last.args = <<ArgNone>> /\ last.kwargs = <<>>
    /\ views[last.recv].kind = "multi"
    /\ last.id = last.recv

\* ------------------------------------------------------ access and indexing
IntegerAccess == last.op = "item" /\ views[last.recv].kind \in {"mask", "multi"}

\* C14 as stated: view[n] with an integer n outside [0, len(view)), every
\* negative n included, fails for a MaskIndex and for a MultiIndex and never
\* returns an element.
C14_OutOfRangeAccessFails ==
    (/\ IntegerAccess
     /\ (last.n.n < 0 \/ last.n.n >= len(views, last.recv)))
    => ~last.ok

FlagListIndexing == last.op = "getitem" /\ last.n.kind = "list"
DictIndexing == last.op = "getitem" /\ last.n.kind = "dict"

\* C15: indexing with a list or tuple of flags returns a masked view over
\* exactly the positions i where flags[i] is truthy, in increasing order (the
\* entries are never read as positions); indexing with a dictionary d gives
\* what sel(d) gives: the same outcome, the same object and the same heap.
C15_FlagListAndDictIndexing ==
    /\ FlagListIndexing =>
          LET r == views[last.id]
              lst == last.n.lst IN
          /\ last.ok
          /\ last.id = Len(Before) + 1
          /\ r.kind = "mask" /\ r.index = last.recv
          /\ \A i, j \in 1..Len(r.indices) : i < j => r.indices[i] < r.indices[j]
          /\ SeqRange(r.indices) = {i - 1 : i \in {j \in 1..Len(lst) : bool(lst[j])}}
    /\ DictIndexing =>
          LET r == sel(Before, last.recv, <<ArgDict(last.n.dic)>>, <<>>) IN
          /\ last.ok = r.ok
          /\ last.id = r.id
          /\ views = r.h
          /\ (last.ok /\ last.n.dic # <<>> /\ Before[last.recv].kind # "multi") =>
                 Contents(views, last.id) =
                     [i \in 1..Len(views[last.id].indices) |->
                         getitem(Before, last.recv, views[last.id].indices[i]).at]

\* A flag list of integers 2, 1, 0 keeps the positions 0 and 1.
C15_Witness ==
    /\ FlagListIndexing
    /\ last.n.lst = <<IntV(2), IntV(1), IntV(0)>>
    /\ views[last.id].indices = <<0, 1>>

\* C17: whenever order_by with a non-empty ordering returns, the result is a
\* masked view over the receiver whose positions are a permutation of
\* 0..len - 1 (each exactly once), arranged so that compare_elements of an
\* earlier and a later element of the result is defined and never positive.
C17_OrderBySorts ==
    OrderReturnedView =>
        LET r == views[last.id]
            n == len(views, last.recv)
            acts == OrderInit(last.args, last.kwargs).actions IN
        /\ r.kind = "mask" /\ r.index = last.recv
        /\ Len(r.indices) = n
        /\ SeqRange(r.indices) = 0..(n - 1)
        /\ \A i, j \in 1..n :
              i < j =>
                  LET c == compare_elements(acts,
                               getitem(views, last.recv, r.indices[i]).e,
                               getitem(views, last.recv, r.indices[j]).e) IN
                  c.ok /\ c.n <= 0

\* The first two elements were in strictly descending order and tied with
\* the third: the leading run has been reversed and the third put after its
\* equal.
C17_Witness ==
    /\ OrderReturnedView
    /\ views[last.id].indices = <<1, 2, 0>>
    /\ compare_elements(OrderInit(last.args, last.kwargs).actions,
           getitem(views, last.recv, 1).e,
           getitem(views, last.recv, 0).e) = Cmp(0 - 1)

\* The concrete element a position of a view stands for, by composing the
\* position lists (and the children's offsets) down to a concrete collection.
RECURSIVE Resolve(_, _, _)
RECURSIVE ResolveChild(_, _, _, _)
ResolveChild(h, ids, n, j) ==
    IF n < len(h, ids[j]) THEN Resolve(h, ids[j], n)
    ELSE ResolveChild(h, ids, n - len(h, ids[j]), j + 1)

Resolve(h, v, n) ==
    IF h[v].kind = "base" THEN <<v, n>>
    ELSE IF h[v].kind = "mask" THEN Resolve(h, h[v].index, h[v].indices[n + 1])
    ELSE ResolveChild(h, h[v].indexes, n, 1)

\* A view all of whose masks, down to the concrete collections, were made by
\* sel, order_by, a slice, a dict or a flag list of the right length.
RECURSIVE ChainExact(_)
ChainExact(v) ==
    IF views[v].kind = "base" THEN TRUE
    ELSE IF views[v].kind = "mask" THEN made[v].exact /\ ChainExact(views[v].index)
    ELSE \A i \in 1..Len(views[v].indexes) : ChainExact(views[v].indexes[i])

\* C19: for a MaskIndex M with position list p over B, M[n] is B[p[n]] for
\* every 0 <= n < len(M); along a chain of views made by sel, order_by and
\* slicing the access succeeds and returns the element of the concrete
\* collection found at the composition of the position lists.
C19_MaskComposition ==
    \A v \in 1..Len(views) :
        views[v].kind = "mask" =>
            \A n \in 0..(len(views, v) - 1) :
                LET x == getitem(views, v, n) IN
                /\ x = getitem(views, views[v].index, views[v].indices[n + 1])
                /\ ChainExact(v) =>
                      /\ x.ok
                      /\ x.at = Resolve(views, v, n)
                      /\ views[x.at[1]].kind = "base"
                      /\ x.e = views[x.at[1]].elems[x.at[2] + 1]
                      /\ x.at = snap[v][n + 1]

\* A slice of a reversed view: positions 1 and 2 of the view stand for the
\* positions 1 and 0 of the collection.
C19_Witness ==
    /\ Len(views) = 4
    /\ views[3].kind = "mask" /\ views[3].index = 1 /\ views[3].indices = <<2, 1, 0>>
    /\ views[4].kind = "mask" /\ views[4].index = 3 /\ views[4].indices = <<1, 2>>
    /\ Contents(views, 4) = <<<<1, 1>>, <<1, 0>>>>

\* The values a rank table has an entry for.
Listed(vals) ==
    LET t == RankTable(<<>>, vals, 1) IN
    {t.order[i].k : i \in 1..Len(t.order)}

\* order_by was called with one key ordered by an explicit list, on a
\* collection holding two elements whose values for the key are not in it.
TwoUnlisted ==
    /\ last.op = "order_by"
    /\ last.args = <<>>
    /\ Len(last.kwargs) = 1
    /\ last.kwargs[1].v.kind = "list"
    /\ Iterable(Before, last.recv)
    /\ \E i, j \in 1..len(Before, last.recv) :
          /\ i < j
          /\ metadata(getitem(Before, last.recv, i - 1).e, last.kwargs[1].k)
                 \notin Listed(last.kwargs[1].v.vals)
          /\ metadata(getitem(Before, last.recv, j - 1).e, last.kwargs[1].k)
                 \notin Listed(last.kwargs[1].v.vals)

\* C20 as stated: two elements whose values are not in the reference list are
\* treated as equal: order_by completes and leaves them in their relative
\* order.
C20_UnlistedValuesTie ==
    TwoUnlisted =>
        /\ last.ok
        /\ \A i, j \in 1..len(Before, last.recv) :
              (/\ i < j
               /\ metadata(getitem(Before, last.recv, i - 1).e, last.kwargs[1].k)
                      \notin Listed(last.kwargs[1].v.vals)
               /\ metadata(getitem(Before, last.recv, j - 1).e, last.kwargs[1].k)
                      \notin Listed(last.kwargs[1].v.vals))
              => \E a, b \in 1..Len(views[last.id].indices) :
                     /\ a < b
                     /\ views[last.id].indices[a] = i - 1
                     /\ views[last.id].indices[b] = j - 1

\* The captured arguments are a valid selection.
ValidSelection == SelectionInit(last.args, last.kwargs).ok

\* C16 as stated: for every valid selection K and ordering O, mutate() gives
\* a view that holds exactly the elements matching K, ordered by O.
C16_MutatePipeline ==
    (last.op = "mutate" /\ ValidSelection) =>
        /\ last.ok
        /\ LET sl == sel(Before, last.recv, last.args, last.kwargs)
               acts == OrderInit(<<last.order_by>>, <<>>).actions
               n == len(views, last.id) IN
           /\ sl.ok
           /\ SeqRange(Contents(views, last.id)) = SeqRange(Contents(sl.h, sl.id))
           /\ n = len(sl.h, sl.id)
           /\ \A i, j \in 1..n :
                 i < j =>
                     LET c == compare_elements(acts, getitem(views, last.id, i - 1).e,
                                               getitem(views, last.id, j - 1).e) IN
                     c.ok /\ c.n <= 0

\* ---------------------------------------------------------- compiler claims
KeysOf(d) == {d[i].k : i \in 1..Len(d)}

\* Equality of two supplied values as python has it: a list equals a list and
\* a tuple a tuple with the same items in the same order, a set equals a set
\* with the same members, and a list never equals a tuple.
PyEq(v, w) ==
    IF v.kind = "set" /\ w.kind = "set" THEN SeqRange(v.vals) = SeqRange(w.vals)
    ELSE v = w

SameKeys(a, b) == KeysOf(a.kwargs) = KeysOf(b.kwargs)

SameSupplied(a, b) ==
    /\ SameKeys(a, b)
    /\ \A k \in KeysOf(a.kwargs) : PyEq(DictGet(a.kwargs, k), DictGet(b.kwargs, k))

\* Two Selection objects for which h() returns.
Fingerprinted(i, j) ==
    /\ objs[i].cls = "Selection" /\ objs[j].cls = "Selection"
    /\ OrderOrSelection_h(objs[i]).ok /\ OrderOrSelection_h(objs[j]).ok

AsList(v) == IF v.kind = "tuple" THEN ValList(v.vals) ELSE v

SameQuantity(x, y) ==
    \/ x = y
    \/ /\ x.t \in {"int", "str"} /\ y.t \in {"int", "str"}
       /\ x.v >= 0 /\ x.v = y.v

\* A predicate that has not been probed with a value yet, probed with x, holds
\* a member that is the quantity x and only members that x's type can read.
FirstProbeOfSameQuantity(a, x) ==
    /\ a.kind = "inlist"
    /\ a.first
    /\ x.t # "none"
    /\ \A y \in a.lst : CastOk(x.t, y)
    /\ \E y \in a.lst : SameQuantity(x, y)

SuppliedValues(args, kwargs) ==
    {kwargs[i].v : i \in 1..Len(kwargs)}
        \cup UNION {SeqRange([j \in 1..Len(args[i].d) |-> args[i].d[j].v]) :
                        i \in {q \in 1..Len(args) : args[q].kind = "dict"}}

\* C13 as stated: a value of an unsupported type, given as a keyword or
\* inside a positional dictionary, makes construction fail; and no Selection
\* that was constructed fails at match_element time over a supplied value.
C13_UnsupportedValueFailsConstruction ==
    /\ (/\ last.op = "Selection"
        /\ \E v \in SuppliedValues(last.args, last.kwargs) : ~SelValueSupported(v))
       => ~last.ok
    /\ (/\ last.op = "Order"
        /\ \E v \in SuppliedValues(last.args, last.kwargs) : ~OrderValueSupported(v))
       => ~last.ok
    /\ last.op = "match" => last.res # "E"

\* The keys in the order they were declared: those of the positional
\* arguments, left to right, then the keywords; a key declared again keeps its
\* first place.
RECURSIVE AddKeys(_, _)
AddKeys(ks, d) ==
    IF d = <<>> THEN ks
    ELSE AddKeys(IF Head(d).k \in SeqRange(ks) THEN ks ELSE Append(ks, Head(d).k),
                 Tail(d))

RECURSIVE DeclaredKeys(_, _, _)
DeclaredKeys(ks, args, kwargs) ==
    IF args = <<>> THEN AddKeys(ks, kwargs)
    ELSE DeclaredKeys(AddKeys(ks, Head(args).d), Tail(args), kwargs)

\* C18: compare_elements(a, b) takes the per-key comparators in the order the
\* keys were declared and returns the first result that is not 0 (raising if
\* that comparator raises); it returns 0 exactly when every key ties.
C18_FirstNonzeroInDeclaredOrder ==
    last.op = "compare" =>
        LET o == objs[last.obj]
            ks == DeclaredKeys(<<>>, o.args, o.kw)
            per == [i \in 1..Len(o.actions) |->
                       OrderActionCall(o.actions[i], metadata(last.a, o.actions[i].k),
                                       metadata(last.b, o.actions[i].k))]
            nz == {i \in 1..Len(per) : per[i] # Cmp(0)} IN
        /\ [i \in 1..Len(o.actions) |-> o.actions[i].k] = ks
        /\ nz = {} => last.res = Cmp(0)
        /\ nz # {} => last.res = per[CHOOSE i \in nz : \A q \in nz : i <= q]
        /\ last.res = Cmp(0) <=> nz = {}

\* Two keys that disagree: the first declared one has decided.
C18_Witness ==
    /\ last.op = "compare"
    /\ Len(objs[last.obj].actions) = 2
    /\ objs[last.obj].args = <<ArgStr("param")>>
    /\ last.res = Cmp(0 - 1)
    /\ OrderActionCall(objs[last.obj].actions[2], metadata(last.a, "level"),
                       metadata(last.b, "level")) = Cmp(1)

\* --------------------------------------------------------- hypercube claims
\* The keys the availability tree sees, and the distinct values of a key.
TreeKeys == CubeKeys \ ignore_keys
ValuesOf(c, k) == {c[i][k] : i \in 1..Len(c)}
Varying(c) == {k \in TreeKeys : Cardinality(ValuesOf(c, k)) > 1}

\* Exactly one element of c for every combination of values of the keys K.
OnePerCombination(c, K) ==
    \A combo \in [K -> UNION {ValuesOf(c, k) : k \in K}] :
        (\A k \in K : combo[k] \in ValuesOf(c, k))
        => Cardinality({i \in 1..Len(c) : \A k \in K : c[i][k] = combo[k]}) = 1

\* C9 as stated: a collection with exactly one element per combination of
\* the values of its varying keys is reported a full hypercube.
C9_Original ==
    (hyper # "unknown" /\ OnePerCombination(cube, Varying(cube)))
    => hyper = "yes"

\* Every element has a value (not None) for every key of the tree.
NoNone(c) == \A i \in 1..Len(c) : \A k \in TreeKeys : c[i][k] # None

\* C9: a collection whose elements all have a value for every key other than
\* the bookkeeping keys left out of the availability, and that holds exactly
\* one element per combination of the values of its varying keys among those,
\* is reported a full hypercube: its length is the product of the numbers of
\* distinct values of the varying keys.
C9_FullHypercubeIsReported ==
    (hyper # "unknown" /\ NoNone(cube) /\ OnePerCombination(cube, Varying(cube)))
    => hyper = "yes"

\* The 2 x 2 hypercube, with a bookkeeping key that varies as well.
C9_Witness ==
    /\ hyper = "yes"
    /\ Len(cube) = 4
    /\ NoNone(cube)
    /\ Varying(cube) = {"level", "param"}
    /\ OnePerCombination(cube, Varying(cube))
    /\ Cardinality(ValuesOf(cube, "_offset")) > 1

\* The collection was a full hypercube and one element has been removed.
RemovedFromHypercube ==
    /\ parent.some
    /\ hyper # "unknown"
    /\ NoNone(parent.c)
    /\ OnePerCombination(parent.c, Varying(parent.c))

\* C10 as stated: removing any one element from a full hypercube with at
\* least one varying key gives a collection that is not reported full.
C10_Original ==
    (RemovedFromHypercube /\ Cardinality(Varying(parent.c)) >= 1)
    => hyper = "no"

\* C10: removing any one element from a full hypercube with at least two
\* varying keys gives a collection that is not reported a full hypercube.
C10_RemovalBreaksHypercube ==
    (RemovedFromHypercube /\ Cardinality(Varying(parent.c)) >= 2)
    => hyper = "no"

C10_Witness ==
    /\ RemovedFromHypercube
    /\ Cardinality(Varying(parent.c)) = 2
    /\ parent.hyper = "yes"
    /\ Len(cube) = 3
    /\ hyper = "no"

\* ------------------------------------------- ordering by an explicit list
\* order_by with one key, ranked by an explicit list or compared by default,
\* on one concrete collection and on the views it returns.
RankCalls ==
    { Call(<<>>, <<W("level", ValList(<<IntV(500), StrV(500)>>))>>),
      Call(<<>>, <<W("level", ValList(<<StrV(500), IntV(1000)>>))>>),
      Call(<<>>, <<W("level", ValTuple(<<IntV(1000), IntV(500)>>))>>),
      Call(<<>>, <<W("param", ValList(<<StrV(0 - 3), StrV(0 - 2)>>))>>),
      Call(<<>>, <<W("level", ValAsc)>>),
      Call(<<>>, <<W("level", ValDesc)>>) }

\* The elements, and one whose level is nan.
RankElements == Elements \cup {E(NaN, StrV(0 - 2))}

RankInit ==
    /\ \E A \in SeqsUpTo(RankElements, MaxLen) :
          /\ views = <<BaseIndex(A)>>
          /\ snap = <<[i \in 1..Len(A) |-> <<1, i - 1>>]>>
    /\ made = <<[op |-> "base", exact |-> TRUE]>>
    /\ ops = 0
    /\ last = [op |-> "init", recv |-> 0, before |-> 0, ok |-> TRUE, id |-> 0]
    /\ CubeIdle

RankNext == \E v \in 1..Len(views), c \in RankCalls : OrderBy(v, c)

SpecRank == RankInit /\ [][RankNext]_vars

\* order_by returned a view for one key ranked by a list of pairwise-distinct
\* values.
RankedByDistinctList ==
    /\ last.op = "order_by"
    /\ last.ok
    /\ last.args = <<>>
    /\ Len(last.kwargs) = 1
    /\ last.kwargs[1].v.kind \in {"list", "tuple"}
    /\ \A i, j \in 1..Len(last.kwargs[1].v.vals) :
          i # j => last.kwargs[1].v.vals[i] # last.kwargs[1].v.vals[j]

\* C21 as stated: in the view order_by returns for a list of pairwise-distinct
\* values, an element whose value equals the i-th listed value comes strictly
\* before every element whose value equals the j-th listed value, i < j.
C21_ListedValuesSortByPosition ==
    RankedByDistinctList =>
        LET k == last.kwargs[1].k
            vals == last.kwargs[1].v.vals
            out == Items(views, last.id) IN
        \A p, q \in 1..Len(out) : \A i, j \in 1..Len(vals) :
            (/\ i < j
             /\ metadata(out[p].e, k) = vals[i]
             /\ metadata(out[q].e, k) = vals[j])
            => p < q

\* ------------------------------------------------ the lazy cast of InList
\* The predicates of the probed Selection that were invoked by the last
\* match_element: all(...) stops at the first that does not accept.
Invoked(n) ==
    \A q \in 1..(n - 1) :
        InListCall(last.was[q], metadata(last.e, last.was[q].k)).res = "T"

\* C22: a membership predicate casts its stored set at most once.  A call
\* changes the predicate only when it is still in its first state and the
\* probe is not None, and then the set becomes the casts of its members to
\* the probe's type and the first state is left for good; a predicate past its
\* first state is left as it is by every call, whatever the probe's type, and
\* so is any predicate by a None probe.
C22_CastAtMostOnce ==
    last.op = "match" =>
        \A n \in 1..Len(last.was) :
            LET was == last.was[n]
                now == objs[last.obj].actions[n]
                x == metadata(last.e, was.k) IN
            was.kind = "inlist" =>
                /\ ~was.first => now = was
                /\ x.t = "none" => now = was
                /\ now # was =>
                      /\ was.first /\ ~now.first
                      /\ now.lst = {Cast(x.t, y) : y \in was.lst}
                /\ (/\ Invoked(n) /\ was.first /\ x.t # "none"
                    /\ \A y \in was.lst : CastOk(x.t, y)) => ~now.first

\* A predicate whose set was cast to str by an earlier probe is probed with
\* the integer 500: the set stays {'500'} and the probe is rejected.
C22_Witness ==
    /\ last.op = "match"
    /\ Len(last.was) = 1
    /\ last.was[1].kind = "inlist"
    /\ ~last.was[1].first
    /\ last.was[1].lst = {StrV(500)}
    /\ metadata(last.e, last.was[1].k) = IntV(500)
    /\ last.res = "F"
    /\ objs[last.obj].actions = last.was

\* ------------------------------------------------- incomparable values
\* Two values that are not equal and for which neither < nor > holds.
Incomparable(a, b) ==
    /\ ~PyValEq(a, b)
    /\ PyLess(a, b).ok /\ ~PyLess(a, b).b
    /\ PyLess(b, a).ok /\ ~PyLess(b, a).b

\* order_by was called with one key compared by default (ascending or
\* descending) on a collection that can be iterated.
DefaultOrdered ==
    /\ last.op = "order_by"
    /\ last.args = <<>>
    /\ Len(last.kwargs) = 1
    /\ last.kwargs[1].v.kind \in {"ascending", "descending"}
    /\ Iterable(Before, last.recv)

LevelAt(h, v, i) == metadata(getitem(h, v, i).e, last.kwargs[1].k)

\* The sort meets an incomparable pair: the first comparison it makes (the
\* second element against the first) is of such a pair, or some element is
\* incomparable with another and cannot be compared with any.
MeetsIncomparable ==
    LET n == len(Before, last.recv) IN
    \/ n >= 2 /\ Incomparable(LevelAt(Before, last.recv, 1), LevelAt(Before, last.recv, 0))
    \/ \E i \in 0..(n - 1) :
          /\ \E j \in 0..(n - 1) :
                j # i /\ Incomparable(LevelAt(Before, last.recv, i),
                                      LevelAt(Before, last.recv, j))
          /\ \A j \in 0..(n - 1) :
                j # i => ~ascending(LevelAt(Before, last.recv, i),
                                    LevelAt(Before, last.recv, j)).ok

\* C23: when the default comparison of an order_by meets two values that are
\* not equal and for which neither < nor > holds, the call fails and no view
\* is made; and no view that order_by does return has two incomparable
\* values next to each other, as a tie would leave them.
C23_IncomparableValuesFailOrderBy ==
    DefaultOrdered =>
        /\ MeetsIncomparable => (~last.ok /\ last.id = 0 /\ views = Before)
        /\ last.ok =>
              \A p \in 1..(len(views, last.id) - 1) :
                  ~Incomparable(LevelAt(views, last.id, p - 1),
                                LevelAt(views, last.id, p))

\* Levels 500, 1000 and nan ordered ascending: the first comparison succeeds,
\* the one with nan raises, and the call fails.
C23_Witness ==
    /\ DefaultOrdered
    /\ last.kwargs[1].v.kind = "ascending"
    /\ len(Before, last.recv) = 3
    /\ LevelAt(Before, last.recv, 0) = IntV(500)
    /\ LevelAt(Before, last.recv, 1) = IntV(1000)
    /\ LevelAt(Before, last.recv, 2) = NaN
    /\ ~last.ok
    /\ views = Before

\* ------------------------------------------- what a reported hypercube holds
\* C24 as stated, for collections whose elements have a value for every key
\* of the tree: a collection reported a full hypercube holds every
\* combination of the values of its varying keys exactly once.
C24_ReportedFullIsDenseProduct ==
    (hyper = "yes" /\ NoNone(cube)) => OnePerCombination(cube, Varying(cube))

\* --------------------------------------------- the merge of the arguments
\* The positional arguments that are dictionaries holding key k.
DictsWith(args, k) ==
    {i \in 1..Len(args) : args[i].kind = "dict" /\ DictHas(args[i].d, k)}

\* The keys supplied to a constructor, in its dictionaries and keywords.
SuppliedKeys(args, kwargs) ==
    {k \in Keys : DictsWith(args, k) # {} \/ DictHas(kwargs, k)}

\* The value that wins for key k: the keyword's when there is one, else that
\* of the rightmost positional dictionary holding k.
WinningValue(args, kwargs, k) ==
    IF DictHas(kwargs, k) THEN DictGet(kwargs, k)
    ELSE LET i == CHOOSE i \in DictsWith(args, k) :
                      \A j \in DictsWith(args, k) : j <= i IN
         DictGet(args[i].d, k)

\* C25: Selection fails to construct when a positional argument is neither
\* None nor a dictionary; a constructed Selection holds exactly the supplied
\* keys (a positional None adding nothing), each with the keyword's value when
\* a keyword gives one and else with the value of the rightmost positional
\* dictionary that holds the key.
C25_SelectionMergeOrder ==
    last.op = "Selection" =>
        /\ (\E i \in 1..Len(last.args) : last.args[i].kind \notin {"none", "dict"})
              => ~last.ok
        /\ last.ok =>
              /\ KeysOf(objs[last.obj].kwargs) = SuppliedKeys(last.args, last.kwargs)
              /\ \A k \in SuppliedKeys(last.args, last.kwargs) :
                    DictGet(objs[last.obj].kwargs, k)
                        = WinningValue(last.args, last.kwargs, k)

\* Two dictionaries around a None, both holding level, and a keyword for the
\* param of the first: level is the second dictionary's, param the keyword's.
C25_Witness ==
    /\ last.op = "Selection"
    /\ last.ok
    /\ Len(last.args) = 3
    /\ last.args[2].kind = "none"
    /\ DictsWith(last.args, "level") = {1, 3}
    /\ DictGet(last.args[1].d, "level") # DictGet(last.args[3].d, "level")
    /\ DictGet(objs[last.obj].kwargs, "level") = DictGet(last.args[3].d, "level")
    /\ DictHas(last.args[1].d, "param")
    /\ DictGet(objs[last.obj].kwargs, "param") = DictGet(last.kwargs, "param")
    /\ DictGet(last.args[1].d, "param") # DictGet(last.kwargs, "param")

\* ------------------------------------------------- FieldSet.availability
\* A FieldSet over the collection cube.  _availability is the cached
\* Availability object (None until there is one); an Availability object is
\* [id, from, dicts]: which object it is, whether it was loaded from the
\* serialized file or built by scanning, and the dicts it was built from.
\* scans counts the metadata scans, created the Availability objects made,
\* and rets lists what each access of the property returned.
NoAvailability == [some |-> FALSE, id |-> 0, from |-> "none", dicts |-> <<>>]

\* FieldSet.__init__: the serialized availability is loaded when
\* availability_path names a file that exists.
FieldSetInit(path_exists) ==
    [some |-> TRUE,
     path_exists |-> path_exists,
     _availability |-> IF path_exists
                       THEN [some |-> TRUE, id |-> 1, from |-> "file", dicts |-> <<>>]
                       ELSE NoAvailability,
     scans |-> 0,
     created |-> IF path_exists THEN 1 ELSE 0,
     rets |-> <<>>]

\* The property: [fs, ret], the FieldSet afterwards and the object returned.
\* Mutant: the cached object is ignored and the tree is built at every access.
availability_NoCache(fs, c) ==
    LET t == [some |-> TRUE, id |-> fs.created + 1, from |-> "scan",
              dicts |-> custom_availability(c, ignore_keys)] IN
    [fs |-> [fs EXCEPT !._availability = t, !.scans = @ + 1, !.created = @ + 1],
     ret |-> t]

availability(fs, c) ==
    IF fs._availability.some THEN [fs |-> fs, ret |-> fs._availability]
    ELSE LET t == [some |-> TRUE, id |-> fs.created + 1, from |-> "scan",
                   dicts |-> custom_availability(c, ignore_keys)] IN
         [fs |-> [fs EXCEPT !._availability = t, !.scans = @ + 1, !.created = @ + 1],
          ret |-> t]

\* The collections scanned: elements with and without a level.
AvailElements ==
    { [level |-> l, param |-> q, _offset |-> o] :
        l \in {IntV(500), None},
        q \in {StrV(0 - 2), StrV(0 - 3)},
        o \in {IntV(0), IntV(1)} }

AvailInit ==
    /\ cube \in SeqsUpTo(AvailElements, MaxLen)
    /\ \E path_exists \in BOOLEAN : avail = FieldSetInit(path_exists)
    /\ parent = NoParent
    /\ hyper = "unknown"
    /\ views = <<>> /\ made = <<>> /\ snap = <<>> /\ ops = 0 /\ objs = <<>>
    /\ last = [op |-> "init", recv |-> 0, before |-> 0, ok |-> TRUE, id |-> 0]
    /\ DownloadIdle /\ ConfigIdle

\* One access of fieldset.availability.
GetAvailability ==
    /\ ops < MaxCalls
    /\ ops' = ops + 1
    /\ LET r == availability(avail, cube) IN
       /\ avail' = [r.fs EXCEPT !.rets = Append(@, r.ret)]
       /\ last' = [op |-> "availability", ret |-> r.ret.id,
                   scanned |-> r.fs.scans - avail.scans]
    /\ UNCHANGED <<views, made, snap, cube, parent, hyper, objs, fsys, procs, inputs>>

AvailNext == GetAvailability

SpecAvail == AvailInit /\ [][AvailNext]_vars

\* C26: the metadata scan runs at most once, at the first access of the
\* property and not before (not at construction); it never runs when the
\* serialized availability was loaded; every access returns the one object
\* the FieldSet holds; and every scanned dict is the element's metadata
\* without the bookkeeping keys and without the None-valued entries.
C26_AvailabilityBuiltOnce ==
    avail.some =>
        /\ avail.scans <= 1
        /\ avail.rets = <<>> => avail.scans = 0
        /\ avail.path_exists => avail.scans = 0
        /\ (avail.rets # <<>> /\ ~avail.path_exists) => avail.scans = 1
        /\ (last.op = "availability" /\ Len(avail.rets) > 1) => last.scanned = 0
        /\ \A i \in 1..Len(avail.rets) :
              avail.rets[i] = avail.rets[1] /\ avail.rets[i] = avail._availability
        /\ avail._availability.from = "scan" =>
              /\ Len(avail._availability.dicts) = Len(cube)
              /\ \A i \in 1..Len(cube) :
                    LET d == avail._availability.dicts[i] IN
                    /\ DOMAIN d = {k \in DOMAIN cube[i] :
                                      k \notin ignore_keys /\ cube[i][k] # None}
                    /\ \A k \in DOMAIN d : d[k] = cube[i][k]

\* Two accesses of a FieldSet without a serialized availability, over two
\* elements of which the second has no level: one scan, the same object
\* twice, and the second dict holds the param alone.
C26_Witness ==
    /\ avail.some
    /\ ~avail.path_exists
    /\ Len(avail.rets) = 2
    /\ avail.scans = 1
    /\ avail.rets[1].id = avail.rets[2].id
    /\ Len(cube) = 2
    /\ cube[2].level = None
    /\ DOMAIN avail._availability.dicts[1] = {"level", "param"}
    /\ DOMAIN avail._availability.dicts[2] = {"param"}

\* --------------------------------------------------- Downloader.download
\* Processes download one url into one target.  The directory maps the two
\* names, target and target + ".download", to an inode (0: no such file);
\* inodes holds each file's content, a sequence of chunks in which 0 is a
\* hole.  The transferred content is the chunks 1, ..., MaxChunks, written one
\* after the other at the writer's own offset.
MaxProcs == 2
MaxChunks == 4

Complete == [i \in 1..MaxChunks |-> i]

\* open(download, "wb"): the file is created, or truncated when it is there;
\* [fs, fd].
open_wb(fs) ==
    IF fs.names.download # 0
    THEN [fs |-> [fs EXCEPT !.inodes[fs.names.download] = <<>>],
          fd |-> fs.names.download]
    ELSE [fs |-> [names |-> [fs.names EXCEPT !.download = Len(fs.inodes) + 1],
                  inodes |-> Append(fs.inodes, <<>>)],
          fd |-> Len(fs.inodes) + 1]

\* f.write(chunk) at offset off of the open file fd.
write(fs, fd, off, chunk) ==
    [fs EXCEPT !.inodes[fd] =
        [i \in 1..Max(Len(@), off + 1) |->
            IF i = off + 1 THEN chunk ELSE IF i <= Len(@) THEN @[i] ELSE 0]]

\* os.rename(download, target): [ok, fs]; ok = FALSE is FileNotFoundError.
rename(fs) ==
    IF fs.names.download = 0 THEN [ok |-> FALSE, fs |-> fs]
    ELSE [ok |-> TRUE,
          fs |-> [fs EXCEPT !.names = [target |-> fs.names.download, download |-> 0]]]

\* except FileNotFoundError: the error is raised again only when the target is
\* not there.
\* Mutant: the error is always raised again.
on_FileNotFoundError_Reraise(fs) == "raised"

on_FileNotFoundError(fs) == IF fs.names.target # 0 THEN "done" ELSE "raised"

\* A process is at the test of line 55 (exists), at the open of line 74, in
\* the transfer, at the rename, or out of the call (done, raised).
NewProc == [pc |-> "exists", fd |-> 0, off |-> 0, renamed |-> "no", ret |-> "none"]

\* Before the calls there is nothing, or the target of an earlier download,
\* or the temporary file an interrupted download left behind.
DownloadInit ==
    /\ fsys \in { [names |-> [target |-> 0, download |-> 0], inodes |-> <<>>],
                  [names |-> [target |-> 1, download |-> 0], inodes |-> <<Complete>>],
                  [names |-> [target |-> 0, download |-> 1], inodes |-> <<<<1>>>>] }
    /\ procs = [p \in 1..MaxProcs |-> NewProc]
    /\ views = <<>> /\ made = <<>> /\ snap = <<>> /\ ops = 0 /\ objs = <<>>
    /\ last = [op |-> "init", recv |-> 0, before |-> 0, ok |-> TRUE, id |-> 0]
    /\ cube = <<>> /\ parent = NoParent /\ hyper = "unknown"
    /\ AvailIdle /\ ConfigIdle

DownloadFrame ==
    UNCHANGED <<views, made, snap, ops, last, cube, parent, hyper, objs, avail, inputs>>

\* if os.path.exists(target): return
Exists(p) ==
    /\ procs[p].pc = "exists"
    /\ procs' = [procs EXCEPT ![p] =
                    IF fsys.names.target # 0
                    THEN [@ EXCEPT !.pc = "done", !.ret = "early"]
                    ELSE [@ EXCEPT !.pc = "open"]]
    /\ UNCHANGED fsys
    /\ DownloadFrame

\* with open(download, "wb") as f:
Open(p) ==
    /\ procs[p].pc = "open"
    /\ fsys' = open_wb(fsys).fs
    /\ procs' = [procs EXCEPT ![p] = [@ EXCEPT !.pc = "transfer",
                                                !.fd = open_wb(fsys).fd, !.off = 0]]
    /\ DownloadFrame

\* self.transfer(f, ...): one chunk is written; the file is closed after the
\* last.
Transfer(p) ==
    /\ procs[p].pc = "transfer"
    /\ fsys' = write(fsys, procs[p].fd, procs[p].off, procs[p].off + 1)
    /\ procs' = [procs EXCEPT ![p] =
                    [@ EXCEPT !.off = @ + 1,
                              !.pc = IF procs[p].off + 1 = MaxChunks
                                     THEN "rename" ELSE "transfer"]]
    /\ DownloadFrame

\* try: os.rename(download, target) except FileNotFoundError: ...; finalise();
\* return total
Rename(p) ==
    /\ procs[p].pc = "rename"
    /\ LET r == rename(fsys) IN
       /\ fsys' = r.fs
       /\ procs' = [procs EXCEPT ![p] =
                       IF r.ok
                       THEN [@ EXCEPT !.pc = "done", !.renamed = "yes", !.ret = "total"]
                       ELSE IF on_FileNotFoundError(fsys) = "done"
                       THEN [@ EXCEPT !.pc = "done", !.renamed = "missing", !.ret = "total"]
                       ELSE [@ EXCEPT !.pc = "raised", !.renamed = "missing"]]
    /\ DownloadFrame

DownloadNext ==
    \/ \E p \in 1..MaxProcs : Exists(p)
    \/ \E p \in 1..MaxProcs : Open(p)
    \/ \E p \in 1..MaxProcs : Transfer(p)
    \/ \E p \in 1..MaxProcs : Rename(p)

SpecDownload == DownloadInit /\ [][DownloadNext]_vars

\* C27 as stated: whenever the target exists it holds the complete
\* transferred content.
C27_TargetIsNeverPartial ==
    (procs # <<>> /\ fsys.names.target # 0)
    => fsys.inodes[fsys.names.target] = Complete

\* C28: no download call raises; a process whose rename found the temporary
\* file gone has returned normally, with the target in place; and when every
\* call has returned the target exists.
C28_ConcurrentRenameIsTolerated ==
    procs # <<>> =>
        /\ \A p \in 1..Len(procs) : procs[p].pc # "raised"
        /\ \A p \in 1..Len(procs) :
              procs[p].renamed = "missing"
              => (procs[p].pc = "done" /\ procs[p].ret = "total"
                  /\ fsys.names.target # 0)
        /\ (\A p \in 1..Len(procs) : procs[p].pc = "done") => fsys.names.target # 0

\* Both processes went through the transfer; one renamed the temporary file,
\* the other found it gone, and both returned.
C28_Witness ==
    /\ procs # <<>>
    /\ \A p \in 1..Len(procs) : procs[p].pc = "done" /\ procs[p].ret = "total"
    /\ \E p, q \in 1..Len(procs) :
          procs[p].renamed = "yes" /\ procs[q].renamed = "missing"
    /\ fsys.names.target # 0

\* ---------------------------------------------- Input.process_inheritance
\* An Input is [name, inherit, kwargs, done]: its name (a string, here the
\* sequence of its characters), the names it inherits from, its kwargs and
\* _inheritance_done.  The others are the list inputs itself; an Input is
\* named by its position in it, and o == self is identity.
MaxInputs == 3
\* The depth of calls at which the interpreter raises RecursionError.
MaxDepth == 4

InputNames == << <<"a">>, <<"$", "b">>, <<"c">>, <<"$", "d">>, <<"e">> >>

\* name = o.name; if name.startswith("$"): name = name[1:]
StripDollar(name) ==
    IF name # <<>> /\ Head(name) = "$" THEN Tail(name) ELSE name

\* process_inheritance from position i of the loop over others, at call depth
\* depth: [ok, ins], the Inputs afterwards; ok = FALSE is a RecursionError,
\* which leaves every call on the stack.
RECURSIVE process_inheritance(_, _, _, _)
process_inheritance(ins, s, i, depth) ==
    IF i > Len(ins) THEN [ok |-> TRUE, ins |-> [ins EXCEPT ![s].done = TRUE]]
    ELSE IF i = s THEN process_inheritance(ins, s, i + 1, depth)
    ELSE IF StripDollar(ins[i].name) \notin ins[s].inherit
         THEN process_inheritance(ins, s, i + 1, depth)
    ELSE LET r == IF ins[i].done THEN [ok |-> TRUE, ins |-> ins]
                  ELSE IF depth >= MaxDepth THEN [ok |-> FALSE, ins |-> ins]
                  ELSE process_inheritance(ins, i, 1, depth + 1) IN
         IF ~r.ok THEN r
         ELSE process_inheritance(
                  [r.ins EXCEPT ![s].kwargs =
                      DictUpdate(DictUpdate(<<>>, r.ins[i].kwargs), r.ins[s].kwargs)],
                  s, i + 1, depth)

\* Loop.__init__: process_inheritance(inputs) for every input named in
\* applies_to, in the order of inputs; an exception ends the constructor.
RECURSIVE LoopInit(_, _, _)
LoopInit(ins, applies_to, i) ==
    IF i > Len(ins) THEN [ok |-> TRUE, ins |-> ins]
    ELSE IF ins[i].name \notin applies_to THEN LoopInit(ins, applies_to, i + 1)
    ELSE LET r == process_inheritance(ins, i, 1, 1) IN
         IF ~r.ok THEN r ELSE LoopInit(r.ins, applies_to, i + 1)

\* The kwargs each input is configured with, and the inherit lists: up to two
\* names, its own among them.
InputKwargs ==
    << <<W("x", 1)>>, <<W("x", 2), W("y", 2)>>, <<W("y", 3)>>, <<W("z", 4)>>, <<>> >>

InheritLists(n) ==
    {S \in SUBSET {StripDollar(InputNames[i]) : i \in 1..n} : Cardinality(S) <= 2}

ConfigInit ==
    /\ \E inh \in [1..MaxInputs -> InheritLists(MaxInputs)] :
          inputs = [i \in 1..MaxInputs |->
                       [name |-> InputNames[i], inherit |-> inh[i],
                        kwargs |-> InputKwargs[i], done |-> FALSE]]
    /\ views = <<>> /\ made = <<>> /\ snap = <<>> /\ ops = 0 /\ objs = <<>>
    /\ last = [op |-> "init", recv |-> 0, before |-> 0, ok |-> TRUE, id |-> 0]
    /\ cube = <<>> /\ parent = NoParent /\ hyper = "unknown"
    /\ AvailIdle /\ DownloadIdle

\* Loop(dic, inputs) with the given applies_to.
NewLoop(applies_to) ==
    /\ ops < MaxCalls
    /\ ops' = ops + 1
    /\ LET r == LoopInit(inputs, applies_to, 1) IN
       /\ inputs' = r.ins
       /\ last' = [op |-> "Loop", applies_to |-> applies_to, ok |-> r.ok,
                   was |-> inputs]
    /\ UNCHANGED <<views, made, snap, cube, parent, hyper, objs, avail, fsys, procs>>

ConfigNext ==
    \E applies_to \in SUBSET {inputs[i].name : i \in 1..Len(inputs)} :
        NewLoop(applies_to)

SpecConfig == ConfigInit /\ [][ConfigNext]_vars

\* C29 as stated: for every assignment of inherit lists the calls made by a
\* Loop complete, and then every input the Loop applies to is marked done and
\* has kept the value of each of its own kwargs.
C29_ProcessInheritanceCompletes ==
    last.op = "Loop" =>
        /\ last.ok
        /\ \A s \in 1..Len(inputs) :
              inputs[s].name \in last.applies_to =>
                  /\ inputs[s].done
                  /\ \A n \in 1..Len(last.was[s].kwargs) :
                        /\ DictHas(inputs[s].kwargs, last.was[s].kwargs[n].k)
                        /\ DictGet(inputs[s].kwargs, last.was[s].kwargs[n].k)
                               = last.was[s].kwargs[n].v

\* ------------------------------------------------------------ make_list_int
\* A str is the sequence of its characters.
MaxInt == 4
MaxStep == 3

DigitChars == <<"0", "1", "2", "3", "4", "5", "6", "7", "8", "9">>

\* str(n) of an integer n.
RECURSIVE Decimal(_)
Decimal(n) ==
    IF n < 10 THEN <<DigitChars[n + 1]>>
    ELSE Append(Decimal(n \div 10), DigitChars[(n % 10) + 1])

IntToStr(n) == IF n < 0 THEN <<"-">> \o Decimal(0 - n) ELSE Decimal(n)

\* value.split("/")
RECURSIVE SplitFrom(_, _, _)
SplitFrom(s, bit, bits) ==
    IF s = <<>> THEN Append(bits, bit)
    ELSE IF Head(s) = "/" THEN SplitFrom(Tail(s), <<>>, Append(bits, bit))
    ELSE SplitFrom(Tail(s), Append(bit, Head(s)), bits)

split(s) == SplitFrom(s, <<>>, <<>>)

\* bit.lower()
lower(bit) ==
    [i \in 1..Len(bit) |->
        IF bit[i] = "T" THEN "t" ELSE IF bit[i] = "O" THEN "o"
        ELSE IF bit[i] = "B" THEN "b" ELSE IF bit[i] = "Y" THEN "y" ELSE bit[i]]

\* int(bit): an optional sign and decimal digits; [ok, n], ok = FALSE is
\* ValueError.
IsDigit(c) == \E d \in 1..10 : DigitChars[d] = c

RECURSIVE DigitsValue(_, _)
DigitsValue(s, acc) ==
    IF s = <<>> THEN acc
    ELSE DigitsValue(Tail(s),
                     10 * acc + (CHOOSE d \in 0..9 : DigitChars[d + 1] = Head(s)))

int(bit) ==
    LET body == IF bit # <<>> /\ Head(bit) \in {"-", "+"} THEN Tail(bit) ELSE bit IN
    IF body = <<>> \/ \E i \in 1..Len(body) : ~IsDigit(body[i])
    THEN [ok |-> FALSE, n |-> 0]
    ELSE [ok |-> TRUE,
          n |-> IF Head(bit) = "-" THEN 0 - DigitsValue(body, 0)
                ELSE DigitsValue(body, 0)]

\* list(range(start, stop, step)); range() raises ValueError for step 0.
RECURSIVE RangeList(_, _, _)
RangeList(start, stop, step) ==
    IF (step > 0 /\ start >= stop) \/ (step < 0 /\ start <= stop) THEN <<>>
    ELSE <<start>> \o RangeList(start + step, stop, step)

range(start, stop, step) ==
    IF step = 0 THEN [ok |-> FALSE, ret |-> <<>>]
    ELSE [ok |-> TRUE, ret |-> RangeList(start, stop, step)]

\* make_list_int(value) for a str value: [ok, ret]; ok = FALSE is ValueError.
\* A str without "/" comes back as the one-element list holding it, and a str
\* of another form is not a list.
make_list_int(value) ==
    IF \A i \in 1..Len(value) : value[i] # "/" THEN [ok |-> TRUE, ret |-> <<value>>]
    ELSE LET bits == split(value) IN
         IF Len(bits) = 3 /\ lower(bits[2]) = <<"t", "o">>
         THEN IF ~int(bits[1]).ok \/ ~int(bits[3]).ok THEN [ok |-> FALSE, ret |-> <<>>]
              ELSE range(int(bits[1]).n, int(bits[3]).n + 1, 1)
         ELSE IF Len(bits) = 5 /\ lower(bits[2]) = <<"t", "o">>
                               /\ lower(bits[4]) = <<"b", "y">>
         THEN IF ~int(bits[1]).ok \/ ~int(bits[3]).ok \/ ~int(bits[5]).ok
              THEN [ok |-> FALSE, ret |-> <<>>]
              ELSE range(int(bits[1]).n, int(bits[3]).n + int(bits[5]).n,
                         int(bits[5]).n)
         ELSE [ok |-> FALSE, ret |-> <<>>]

\* The texts 'a/to/b' and 'a/to/b/by/c'.
ToText(a, b) == IntToStr(a) \o <<"/", "t", "o", "/">> \o IntToStr(b)
ToByText(a, b, c) == ToText(a, b) \o <<"/", "b", "y", "/">> \o IntToStr(c)

Ends == (0 - 1)..MaxInt

ListIntValues ==
    {ToText(a, b) : a \in Ends, b \in Ends}
        \cup {ToByText(a, b, c) : a \in Ends, b \in Ends, c \in 0..MaxStep}
        \cup { <<"5">>, <<"1", "/", "2">>, <<"1", "/", "T", "o", "/", "1", "0">>,
               <<"1", "/", "t", "o", "/", "x">> }

ListIntInit ==
    /\ \E value \in ListIntValues : last = [op |-> "value", value |-> value]
    /\ views = <<>> /\ made = <<>> /\ snap = <<>> /\ ops = 0 /\ objs = <<>>
    /\ cube = <<>> /\ parent = NoParent /\ hyper = "unknown"
    /\ AvailIdle /\ DownloadIdle /\ ConfigIdle

MakeListInt ==
    /\ last.op = "value"
    /\ last' = [op |-> "make_list_int", value |-> last.value,
                ok |-> make_list_int(last.value).ok,
                ret |-> make_list_int(last.value).ret]
    /\ UNCHANGED <<views, made, snap, ops, cube, parent, hyper, objs, others>>

ListIntNext == MakeListInt

SpecListInt == ListIntInit /\ [][ListIntNext]_vars

\* The integers a, a + c, ..., none above b.
UpTo(a, b, c) == [i \in 1..(((b - a) \div c) + 1) |-> a + (i - 1) * c]

\* C30 as stated: for a <= b, 'a/to/b' gives a, a + 1, ..., b and
\* 'a/to/b/by/c' with c > 0 gives a, a + c, a + 2c, ... with no value above b.
C30_RangeStaysWithinEnd ==
    last.op = "make_list_int" =>
        \A a \in Ends, b \in Ends :
            a <= b =>
                /\ last.value = ToText(a, b) =>
                      (last.ok /\ last.ret = UpTo(a, b, 1))
                /\ \A c \in 1..MaxStep :
                      last.value = ToByText(a, b, c) =>
                          (last.ok /\ last.ret = UpTo(a, b, c))

====
